---- MODULE Spec2Model ----
(***************************************************************************)
(* State-machine model of the Messenger webhook relay (abdouuu19/Chatbot).  *)
(*                                                                         *)
(* variant "part_002" : the Groq server of src/unnamed/part_002            *)
(*   (processMessage, callGroqAPI, the hourly cron job, the two in-process *)
(*   maps userProfiles and conversationMemory).  The conversation lines of *)
(*   src/unnamed/part_000 (448-464) are the same text as part_002 556-572. *)
(* variants "part_001" / "part_003" : the conversations map of the Gemini  *)
(*   and HuggingFace servers (getConversationContext, addToConversation,   *)
(*   the hourly cron job).                                                 *)
(*                                                                         *)
(* A text is a sequence of lower/upper-case word tokens (the blank token   *)
(* " " stands for a run of whitespace); String.includes is modelled as     *)
(* "contiguous sub-sequence of tokens".  Non-ASCII words of the source are *)
(* written as ASCII stand-ins ("ar_..." for words in Arabic script).       *)
(* Time is Date.now() in milliseconds; it advances in whole steps.         *)
(***************************************************************************)
EXTENDS Integers, Sequences, FiniteSets, TLC

VARIABLES
    variant,            \* which server file is running
    now,                \* Date.now(), in milliseconds
    userProfiles,       \* part_002: Map senderId -> profile object
    conversationMemory, \* part_002: Map senderId -> reference to an array
    heap,               \* part_002: the arrays of turns, by reference
    inv,                \* part_002: the processMessage invocations, in call order
    conversations,      \* part_001/part_003: Map userId -> array of turns
    rateLimiter,        \* part_001/part_003: Map userId -> array of timestamps
    appended,           \* part_001/part_003: per user, number of addToConversation calls
    requests,           \* part_001/part_003: number of isRateLimited calls
    limiter,            \* part_002: the hit counter of express-rate-limit
    res,                \* the HTTP responses issued, in request order
    immediates,         \* part_002: the callbacks queued with setImmediate
    sending,            \* part_002: one sendMessage call and the requests it made
    delivery,           \* part_001/part_003: one sendTextMessage call
    classified,         \* the last LanguageDetector.detect call and its result
    activity,           \* part_001/part_003: the isRateLimited and getConversationContext calls made
    timers              \* part_001/part_003: pending setTimeout callbacks of handleTextMessage

vars == <<variant, now, userProfiles, conversationMemory, heap, inv,
          conversations, rateLimiter, appended, requests,
          limiter, res, immediates, sending, delivery, classified,
          activity, timers>>

vars002 == <<userProfiles, conversationMemory, heap, inv>>
varsStore == <<conversations, rateLimiter, appended, requests>>
varsHttp == <<limiter, res, immediates>>
varsSend == <<sending, delivery>>
varsPure == <<classified>>
varsLog == <<activity, timers>>

----------------------------------------------------------------------------
(* Bounds of the model *)

MaxEvents == 2          \* processMessage invocations per behaviour
MaxTicks == 1           \* clock advances per behaviour
TickHours == 25         \* hours per clock advance
MaxAppends == 2         \* addToConversation calls per user on top of the initial store
MaxRequests == 2        \* isRateLimited calls per behaviour
MaxCalls == 2            \* sendTextMessage calls per behaviour
MaxRuns == 3             \* runs of equal characters in a text handed to sendMessage
MaxWords == 5            \* words in a text handed to sendMessage
MaxHttp == 2            \* HTTP requests per behaviour
MaxScore == 6           \* largest score of one language in a score vector
MaxTimers == 1          \* pending limiter resets
MaxWaits == 2           \* half minutes that pass per behaviour

HourMs == 60 * 60 * 1000
MaxClock == MaxTicks * TickHours * HourMs

Senders == {1, 2}

ArrIds == 1 .. (Cardinality(Senders) + MaxEvents)
NoArr == 0

----------------------------------------------------------------------------
(* Map helpers (JavaScript Map get/set/delete on a function with a finite  *)
(* domain)                                                                 *)

EmptyMap == [x \in {} |-> 0]

MapSet(m, k, v) == [x \in (DOMAIN m) \cup {k} |-> IF x = k THEN v ELSE m[x]]

MapDelete(m, k) == [x \in (DOMAIN m) \ {k} |-> m[x]]

MapDeleteAll(m, ks) == [x \in (DOMAIN m) \ ks |-> m[x]]

----------------------------------------------------------------------------
(* Texts: sequences of word tokens *)

Lower(tok) ==
    CASE tok = "WHO" -> "who"
      [] tok = "Bonjour" -> "bonjour"
      [] tok = "Start" -> "start"
      [] tok = "GET_STARTED" -> "get_started"
      [] OTHER -> tok

toLowerCase(text) == [i \in 1 .. Len(text) |-> Lower(text[i])]

RECURSIVE trimStart(_)
trimStart(text) ==
    IF text # <<>> /\ Head(text) = " " THEN trimStart(Tail(text)) ELSE text

RECURSIVE trimEnd(_)
trimEnd(text) ==
    IF text # <<>> /\ text[Len(text)] = " "
    THEN trimEnd(SubSeq(text, 1, Len(text) - 1))
    ELSE text

trim(text) == trimEnd(trimStart(text))

\* String.prototype.includes on token sequences
includes(text, pattern) ==
    \E i \in 1 .. (Len(text) - Len(pattern) + 1) :
        SubSeq(text, i, i + Len(pattern) - 1) = pattern

\* The keywords of LanguageDetector.patterns that are character substrings
\* of one word token (lower case); a word that holds none maps to itself.
KeywordsIn(tok) ==
    CASE tok = "bonjour" -> {"bonjour", "jour"}
      [] tok = "your" -> {"you", "your"}
      [] tok = "ar_salam" -> {"ar_salam", "ar_la"}
      [] OTHER -> {tok}

ArabicScriptTokens ==
    {"ar_man", "ar_min", "ar_sanaak", "ar_khalaqak", "ar_shkoun", "ar_amalak",
     "ar_anta", "ar_nta", "ar_munshiak", "ar_saniak", "ar_mutawirak",
     "ar_malafak", "ar_safhatak", "ar_facebook", "ar_rabit", "ar_malaf",
     "ar_abdou", "ar_safha", "ar_profile", "ar_almalaf", "ar_shakhsi",
     "ar_hisabak", "ar_kif", "ar_salam", "ar_shukran"}

\* part_002 line 63 / line 294: the Arabic script regex
arabicScript(text) == \E i \in 1 .. Len(text) : text[i] \in ArabicScriptTokens

TxtEmpty == <<>>
TxtSpaces == <<" ">>
TxtHello == <<"hello">>
TxtCreatorEn == <<"WHO", "made", "you">>
TxtCreatorAr == <<"ar_man", "ar_sanaak">>
TxtCreatorFr == <<"Bonjour", "qui", "es", "tu">>
TxtProfile == <<"ton", "profil">>
TxtBoth == <<"your", "creator", "profile">>

\* free-form messages in French and in Arabic
TxtFrench == <<"merci", "beaucoup">>
TxtArabic == <<"ar_salam">>

Texts == {TxtEmpty, TxtSpaces, TxtHello, TxtCreatorEn, TxtCreatorAr,
          TxtCreatorFr, TxtProfile, TxtBoth}

\* attachment lists of an inbound message (<<>>: none)
NoAttachments == <<>>

\* the (messageText, attachments) pairs an inbound event may carry: sender 1
\* sends every kind of message, sender 2 plain text only
Inbound(senderId) ==
    IF senderId = 1
    THEN (Texts \X {NoAttachments})
         \cup {<<TxtCreatorEn, <<"image">> >>, <<TxtEmpty, <<"file", "audio">> >>}
    ELSE {<<TxtHello, NoAttachments>>}

\* free-form messages only, in each language LanguageDetector knows
InboundFreeForm(senderId) ==
    IF senderId = 1
    THEN {TxtHello, TxtFrench, TxtArabic} \X {NoAttachments}
    ELSE {<<TxtHello, NoAttachments>>}

----------------------------------------------------------------------------
(* LanguageDetector (part_002 lines 59-120) *)

LanguageKeys == <<"arabic", "french", "english">>

keywords(lang) ==
    CASE lang = "arabic" ->
           <<"ar_kif", "ar_shnou", "ar_wash", "ar_fin", "ar_kifash", "ar_daba",
             "ar_bzaf", "ar_mezian", "ar_rak", "ar_rah", "ar_salam", "ar_marhaba",
             "ar_shukran", "ar_naam", "ar_la", "ar_madha", "ar_ayna", "ar_mata",
             "ar_limadha", "ar_shkoun", "ar_ashnou", "ar_fouqash", "ar_alash",
             "ar_kirak", "ar_labas", "ar_bikhir", "ar_alhamd">>
      [] lang = "french" ->
           <<"bonjour", "salut", "merci", "comment", "ca", "va", "oui", "non",
             "avec", "dans", "pour", "tres", "bien", "bonsoir", "bonne", "jour",
             "merci", "beaucoup", "pardon", "excusez", "moi", "vous", "etes",
             "suis", "votre", "notre">>
      [] lang = "english" ->
           <<"hello", "hi", "thank", "thanks", "how", "what", "where", "when",
             "why", "good", "great", "please", "you", "your", "the", "and",
             "that", "this">>

weight(lang) ==
    CASE lang = "arabic" -> 3
      [] lang = "french" -> 2
      [] lang = "english" -> 1

\* config.keywords.filter(keyword => lowerText.includes(keyword)).length
matches(lang, lowerText) ==
    Cardinality({k \in 1 .. Len(keywords(lang)) :
        \E i \in 1 .. Len(lowerText) : keywords(lang)[k] \in KeywordsIn(lowerText[i])})

scoresOf(text) ==
    [lang \in {"arabic", "french", "english"} |->
        (IF lang = "arabic" /\ arabicScript(text) THEN 10 ELSE 0)
        + matches(lang, toLowerCase(text)) * weight(lang)]

\* Object.keys(scores).reduce((a, b) => scores[a] > scores[b] ? a : b)
RECURSIVE reduceMax(_, _, _)
reduceMax(scores, a, rest) ==
    IF rest = <<>> THEN a
    ELSE reduceMax(scores,
                   IF scores[a] > scores[Head(rest)] THEN a ELSE Head(rest),
                   Tail(rest))

detectFromScores(scores) ==
    LET detectedLang == reduceMax(scores, Head(LanguageKeys), Tail(LanguageKeys))
    IN  IF scores[detectedLang] > 0 THEN detectedLang ELSE "english"

detect(text) ==
    IF text = <<>> \/ trim(text) = <<>> THEN "english"
    ELSE detectFromScores(scoresOf(text))

----------------------------------------------------------------------------
(* Intent patterns (part_002 lines 133-178) *)

creatorPatterns ==
    { <<"who", "created", "you">>, <<"who", "made", "you">>, <<"your", "creator">>,
      <<"who", "built", "you">>, <<"who", "are", "you">>, <<"your", "maker">>,
      <<"who", "developed", "you">>, <<"your", "developer">>,
      <<"ar_man", "ar_sanaak">>, <<"ar_min", "ar_sanaak">>, <<"ar_man", "ar_khalaqak">>,
      <<"ar_shkoun", "ar_sanaak">>, <<"ar_man", "ar_amalak">>, <<"ar_min", "ar_amalak">>,
      <<"ar_man", "ar_anta">>, <<"ar_shkoun", "ar_nta">>, <<"ar_munshiak">>,
      <<"ar_saniak">>, <<"ar_mutawirak">>,
      <<"qui", "t'a", "cree">>, <<"qui", "es", "tu">>, <<"ton", "createur">>,
      <<"qui", "t'a", "fait">>, <<"ton", "developpeur">>, <<"qui", "t'a", "developpe">> }

\* a variant that compares without lower-casing the text
isAskingAboutCreatorCaseSensitive(text) ==
    \E pattern \in creatorPatterns : includes(text, pattern)

isAskingAboutCreator(text) ==
    LET lowerText == toLowerCase(text)
    IN  \E pattern \in creatorPatterns : includes(lowerText, pattern)

profilePatterns ==
    { <<"your", "profile">>, <<"facebook", "profile">>, <<"your", "facebook">>,
      <<"profile", "link">>, <<"facebook", "link">>, <<"your", "page">>,
      <<"creator", "profile">>, <<"abdou", "profile">>, <<"abdou", "link">>,
      <<"ar_malafak">>, <<"ar_safhatak">>, <<"ar_facebook">>, <<"ar_rabit">>,
      <<"ar_malaf", "ar_abdou">>, <<"ar_safha", "ar_abdou">>, <<"ar_profile">>,
      <<"ar_almalaf", "ar_shakhsi">>, <<"ar_hisabak">>,
      <<"ton", "profil">>, <<"profil", "facebook">>, <<"ton", "facebook">>,
      <<"lien", "profil">>, <<"ta", "page">>, <<"profil", "abdou">> }

isAskingAboutProfile(text) ==
    LET lowerText == toLowerCase(text)
    IN  \E pattern \in profilePatterns : includes(lowerText, pattern)

----------------------------------------------------------------------------
(* Canned replies (part_002 lines 180-243).  A reply is the message handed *)
(* to sendMessage: its kind, the language table entry used, and the value  *)
(* interpolated into it.                                                   *)

NoReply == [kind |-> "none", language |-> "", arg |-> ""]

\* responses[language] || responses.english
tableLanguage(language) ==
    IF language \in {"english", "arabic", "french"} THEN language ELSE "english"

getCreatorResponse(language) ==
    [kind |-> "creator", language |-> tableLanguage(language), arg |-> ""]

getProfileResponse(language) ==
    [kind |-> "profile", language |-> tableLanguage(language), arg |-> ""]

getMediaResponse(language, mediaType) ==
    [kind |-> "media", language |-> tableLanguage(language),
     arg |-> IF mediaType = "image" THEN "images"
             ELSE IF mediaType = "audio" THEN "voice messages"
             ELSE "media files"]

getWelcomeMessage(userName, language) ==
    [kind |-> "welcome", language |-> tableLanguage(language), arg |-> userName]

\* part_002 lines 584-591: the reply of the catch block
errorResponse(messageText) ==
    [kind |-> "error", language |-> tableLanguage(detect(messageText)), arg |-> ""]

aiReply(aiResponse) == [kind |-> "ai", language |-> "", arg |-> aiResponse]

\* part_002 lines 500-513: the first attachment of a known type decides
RECURSIVE mediaTypeOf(_)
mediaTypeOf(attachments) ==
    IF attachments = <<>> THEN "media"
    ELSE IF Head(attachments) \in {"image", "audio", "video"} THEN Head(attachments)
    ELSE mediaTypeOf(Tail(attachments))

----------------------------------------------------------------------------
(* External collaborators *)

\* first_name returned by the Graph API, or 'Friend' (lines 257, 275)
FirstNames == {"Ann", "Friend"}

\* response.data.choices[0].message.content.trim() of a successful completion
Completions == {"completion"}

\* part_002 lines 369-371
apology(detectedLang) ==
    IF detectedLang = "arabic" THEN "apology_arabic" ELSE "apology_english"

\* part_002 lines 287-291, 302
selectedModel(detectedLang) ==
    IF detectedLang = "arabic" THEN "allam-2-7b" ELSE "llama-3.3-70b-versatile"

fallbackModel == "llama-3.1-8b-instant"

----------------------------------------------------------------------------
(* part_002: processMessage invocations *)

RetentionMs == 24 * 60 * 60 * 1000      \* part_002 line 666
ConversationKeep == 20          \* part_002 lines 563-564

Call(api, reply) == [api |-> api, reply |-> reply]

Running(h) == h.pc \notin {"done", "rejected"}

\* array references that are still reachable from the maps or a running handler
Refs(mem, invs) ==
    {mem[s] : s \in DOMAIN mem}
    \cup {invs[i].conversation : i \in {j \in 1 .. Len(invs) : Running(invs[j])}}

\* arrays nothing refers to are reclaimed
Collect(hp, mem, invs) ==
    [a \in ArrIds |-> IF a \in Refs(mem, invs) THEN hp[a] ELSE <<>>]

\* the reference of a newly created array
NewArr(mem, invs) ==
    CHOOSE a \in ArrIds \ Refs(mem, invs) :
        \A b \in ArrIds \ Refs(mem, invs) : a <= b

\* a variant that keeps the oldest turns: conversation.slice(0, 20)
sliceFirst(conversation, n) ==
    IF Len(conversation) <= n THEN conversation ELSE SubSeq(conversation, 1, n)

\* conversation.slice(-20)
sliceLast(conversation, n) ==
    IF Len(conversation) <= n THEN conversation
    ELSE SubSeq(conversation, Len(conversation) - n + 1, Len(conversation))

\* a handler leaves processMessage: its locals are gone
Finish(h, pc) == [h EXCEPT !.pc = pc, !.conversation = NoArr]

\* processMessage(senderId, messageText || '', attachments) is called and runs
\* up to its first await (line 466)
processMessageCalled(senderId, messageText, attachments) ==
    /\ variant = "part_002"
    /\ Len(inv) < MaxEvents
    /\ inv' = Append(inv,
           [pc |-> "mark_seen", senderId |-> senderId, messageText |-> messageText,
            attachments |-> attachments, isFirstTime |-> FALSE,
            detectedLanguage |-> "", pending |-> NoReply, conversation |-> NoArr,
            groqLang |-> "", calls |-> <<Call("mark_seen", NoReply)>>])

\* the callback of setImmediate (lines 628-630) runs
StartProcessMessage(senderId, messageText, attachments) ==
    /\ processMessageCalled(senderId, messageText, attachments)
    /\ UNCHANGED <<variant, now, userProfiles, conversationMemory, heap, varsStore, varsHttp, varsSend, varsPure, varsLog>>

\* line 466 returns (markMessageAsSeen swallows its own failure); line 469 starts
MarkSeenDone(i) ==
    /\ inv[i].pc = "mark_seen"
    /\ inv' = [inv EXCEPT ![i].pc = "typing_on",
                          ![i].calls = Append(@, Call("typing_on", NoReply))]
    /\ UNCHANGED <<variant, now, userProfiles, conversationMemory, heap, varsStore, varsHttp, varsSend, varsPure, varsLog>>

\* lines 491-554: from messageCount++ to the next await
Route(h, userProfile) ==
    LET counted == [userProfile EXCEPT !.messageCount = @ + 1,
                                       !.lastMessageTime = now]
        detectedLanguage == detect(h.messageText)
        h1 == [h EXCEPT !.detectedLanguage = detectedLanguage]
        off(reply) == [h1 EXCEPT !.pc = "typing_off", !.pending = reply,
                                 !.calls = Append(@, Call("typing_off", NoReply))]
    IN  IF Len(h.attachments) > 0 THEN
            [profile |-> counted,
             handler |-> off(getMediaResponse(detectedLanguage,
                                              mediaTypeOf(h.attachments)))]
        ELSE IF h.messageText = <<>> \/ trim(h.messageText) = <<>> THEN
            [profile |-> counted, handler |-> off(NoReply)]
        ELSE IF h.isFirstTime /\ ~counted.isWelcomed THEN
            [profile |-> [counted EXCEPT !.isWelcomed = TRUE],
             handler |-> off(getWelcomeMessage(counted.firstName, detectedLanguage))]
        ELSE IF isAskingAboutCreator(h.messageText) THEN
            [profile |-> counted, handler |-> off(getCreatorResponse(detectedLanguage))]
        ELSE IF isAskingAboutProfile(h.messageText) THEN
            [profile |-> counted, handler |-> off(getProfileResponse(detectedLanguage))]
        ELSE
            [profile |-> counted, handler |-> [h1 EXCEPT !.pc = "think"]]

\* line 469 returns; lines 472-475; a known sender goes on to line 491
TypingOnDone(i) ==
    /\ inv[i].pc = "typing_on"
    /\ IF inv[i].senderId \in DOMAIN userProfiles
       THEN LET r == Route(inv[i], userProfiles[inv[i].senderId])
            IN  /\ inv' = [inv EXCEPT ![i] = r.handler]
                /\ userProfiles' = MapSet(userProfiles, inv[i].senderId, r.profile)
       ELSE /\ inv' = [inv EXCEPT ![i].pc = "fetch_profile",
                                  ![i].calls = Append(@, Call("fetch_profile", NoReply))]
            /\ UNCHANGED userProfiles
    /\ UNCHANGED <<variant, now, conversationMemory, heap, varsStore, varsHttp, varsSend, varsPure, varsLog>>

\* line 476 returns (getEnhancedUserProfile never throws); lines 477-489, then 491
ProfileFetched(i, firstName) ==
    /\ inv[i].pc = "fetch_profile"
    /\ LET created == [firstName |-> firstName, messageCount |-> 0, isWelcomed |-> FALSE,
                       lastMessageTime |-> now]
           r == Route([inv[i] EXCEPT !.isFirstTime = TRUE], created)
       IN  /\ inv' = [inv EXCEPT ![i] = r.handler]
           /\ userProfiles' = MapSet(userProfiles, inv[i].senderId, r.profile)
    /\ UNCHANGED <<variant, now, conversationMemory, heap, varsStore, varsHttp, varsSend, varsPure, varsLog>>

\* a variant that also records the reply in the sender's stored conversation
TypingOffDoneRecording(i) ==
    /\ inv[i].pc = "typing_off"
    /\ inv' = [inv EXCEPT ![i] =
           IF inv[i].pending = NoReply THEN Finish(inv[i], "done")
           ELSE [inv[i] EXCEPT !.pc = "send",
                               !.calls = Append(@, Call("send", inv[i].pending))]]
    /\ heap' = Collect(IF inv[i].senderId \in DOMAIN conversationMemory
                       THEN [heap EXCEPT ![conversationMemory[inv[i].senderId]] =
                                Append(@, [role |-> "assistant",
                                           content |-> inv[i].pending.kind])]
                       ELSE heap,
                       conversationMemory, inv')
    /\ UNCHANGED <<variant, now, userProfiles, conversationMemory, varsStore, varsHttp, varsSend, varsPure, varsLog>>

\* a typing_off of lines 516/523/531/539/547/575 returns; the reply is handed
\* to sendMessage (or, for an empty text, the handler returns at line 524)
TypingOffDone(i) ==
    /\ inv[i].pc = "typing_off"
    /\ inv' = [inv EXCEPT ![i] =
           IF inv[i].pending = NoReply THEN Finish(inv[i], "done")
           ELSE [inv[i] EXCEPT !.pc = "send",
                               !.calls = Append(@, Call("send", inv[i].pending))]]
    /\ heap' = Collect(heap, conversationMemory, inv')
    /\ UNCHANGED <<variant, now, userProfiles, conversationMemory, varsStore, varsHttp, varsSend, varsPure, varsLog>>

\* sendMessage (lines 376-431) returns or throws; a throw enters the catch
\* block of processMessage (lines 580-582)
SendDone(i, ok) ==
    /\ inv[i].pc = "send"
    /\ inv' = [inv EXCEPT ![i] =
           IF ok THEN Finish(inv[i], "done")
           ELSE [inv[i] EXCEPT !.pc = "catch_typing_off",
                               !.calls = Append(@, Call("typing_off", NoReply))]]
    /\ heap' = Collect(heap, conversationMemory, inv')
    /\ UNCHANGED <<variant, now, userProfiles, conversationMemory, varsStore, varsHttp, varsSend, varsPure, varsLog>>

\* line 582 returns; lines 584-591
CatchTypingOffDone(i) ==
    /\ inv[i].pc = "catch_typing_off"
    /\ inv' = [inv EXCEPT ![i].pc = "catch_send",
                          ![i].calls = Append(@, Call("send", errorResponse(inv[i].messageText)))]
    /\ UNCHANGED <<variant, now, userProfiles, conversationMemory, heap, varsStore, varsHttp, varsSend, varsPure, varsLog>>

\* the sendMessage of line 591 returns, or throws out of processMessage
CatchSendDone(i, ok) ==
    /\ inv[i].pc = "catch_send"
    /\ inv' = [inv EXCEPT ![i] = Finish(inv[i], IF ok THEN "done" ELSE "rejected")]
    /\ heap' = Collect(heap, conversationMemory, inv')
    /\ UNCHANGED <<variant, now, userProfiles, conversationMemory, varsStore, varsHttp, varsSend, varsPure, varsLog>>

\* callGroqAPI lines 293-301: the language of the last user message
detectLanguage(messages) ==
    LET users == {k \in 1 .. Len(messages) : messages[k].role = "user"}
    IN  IF users = {} THEN "english"
        ELSE LET last == CHOOSE k \in users : \A j \in users : j <= k
             IN  IF arabicScript(messages[last].content) THEN "arabic" ELSE "english"

GroqRequest(detectedLang, model) ==
    Call("groq", [kind |-> "request", language |-> detectedLang, arg |-> model])

\* lines 307-310, 327, 349: the request carries finalMessages, a copy of the
\* conversation made when callGroqAPI was called (the system prompt, which
\* depends on detectedLang only, is left out)
withMessages(request, messages) ==
    [api |-> request.api, reply |-> request.reply,
     messages |-> SelectSeq(messages, LAMBDA msg : msg.role # "system")]

\* the delay of line 554 is over; lines 557-565, then callGroqAPI up to its
\* first request (line 324)
ThinkDone(i) ==
    /\ inv[i].pc = "think"
    /\ LET senderId == inv[i].senderId
           stored == senderId \in DOMAIN conversationMemory
           got == IF stored THEN conversationMemory[senderId]
                  ELSE NewArr(conversationMemory, inv)
           pushed == Append(IF stored THEN heap[got] ELSE <<>>,
                            [role |-> "user", content |-> inv[i].messageText])
           sliced == Len(pushed) > ConversationKeep
           conversation == IF sliced
                           THEN NewArr(conversationMemory,
                                       [inv EXCEPT ![i].conversation = got])
                           ELSE got
           heap1 == [heap EXCEPT ![got] = pushed]
           heap2 == IF sliced
                    THEN [heap1 EXCEPT ![conversation] = sliceLast(pushed, ConversationKeep)]
                    ELSE heap1
           detectedLang == detectLanguage(heap2[conversation])
       IN  /\ inv' = [inv EXCEPT ![i].pc = "groq_primary",
                                 ![i].conversation = conversation,
                                 ![i].groqLang = detectedLang,
                                 ![i].calls = Append(@,
                                     withMessages(GroqRequest(detectedLang,
                                                      selectedModel(detectedLang)),
                                                  heap2[conversation]))]
           /\ heap' = Collect(heap2, conversationMemory, inv')
    /\ UNCHANGED <<variant, now, userProfiles, conversationMemory, varsStore, varsHttp, varsSend, varsPure, varsLog>>

\* a variant that puts the reply in front of the conversation (unshift)
StoreExchangeInFront(i, aiResponse) ==
    LET conversation == inv[i].conversation
    IN  /\ conversationMemory' = MapSet(conversationMemory, inv[i].senderId, conversation)
        /\ inv' = [inv EXCEPT ![i].pc = "typing_off",
                              ![i].pending = aiReply(aiResponse),
                              ![i].calls = Append(@, Call("typing_off", NoReply))]
        /\ heap' = Collect([heap EXCEPT ![conversation] =
                               <<[role |-> "assistant", content |-> aiResponse]>> \o @],
                           conversationMemory', inv')

\* lines 571-575: callGroqAPI has returned aiResponse
StoreExchange(i, aiResponse) ==
    LET conversation == inv[i].conversation
    IN  /\ conversationMemory' = MapSet(conversationMemory, inv[i].senderId, conversation)
        /\ inv' = [inv EXCEPT ![i].pc = "typing_off",
                              ![i].pending = aiReply(aiResponse),
                              ![i].calls = Append(@, Call("typing_off", NoReply))]
        /\ heap' = Collect([heap EXCEPT ![conversation] =
                               Append(@, [role |-> "assistant", content |-> aiResponse])],
                           conversationMemory', inv')

\* a variant that gives up after the first failed request
GroqPrimaryDoneNoRetry(i, ok, completion) ==
    /\ inv[i].pc = "groq_primary"
    /\ StoreExchange(i, IF ok THEN completion ELSE apology(inv[i].groqLang))
    /\ UNCHANGED <<variant, now, userProfiles, varsStore, varsHttp, varsSend, varsPure, varsLog>>

\* the request of line 324 answers or fails (lines 341-345)
GroqPrimaryDone(i, ok, completion) ==
    /\ inv[i].pc = "groq_primary"
    /\ IF ok
       THEN StoreExchange(i, completion)
       ELSE /\ inv' = [inv EXCEPT ![i].pc = "groq_fallback",
                                  ![i].calls = Append(@,
                                      withMessages(GroqRequest(inv[i].groqLang,
                                                               fallbackModel),
                                                   inv[i].calls[Len(inv[i].calls)].messages))]
            /\ UNCHANGED <<conversationMemory, heap>>
    /\ UNCHANGED <<variant, now, userProfiles, varsStore, varsHttp, varsSend, varsPure, varsLog>>

\* the request of line 347 answers or fails (lines 363-371)
GroqFallbackDone(i, ok, completion) ==
    /\ inv[i].pc = "groq_fallback"
    /\ StoreExchange(i, IF ok THEN completion ELSE apology(inv[i].groqLang))
    /\ UNCHANGED <<variant, now, userProfiles, varsStore, varsHttp, varsSend, varsPure, varsLog>>

\* part_002 lines 665-677: the hourly cron job
staleProfiles(profiles, clock) ==
    {userId \in DOMAIN profiles : profiles[userId].lastMessageTime < clock - RetentionMs}

\* a variant that stops after the first deletion of a run
cleanedMemoryOnePerRun(profiles, memory, clock) ==
    LET hit == staleProfiles(profiles, clock) \cap DOMAIN memory
    IN  IF hit = {} THEN memory
        ELSE MapDelete(memory, CHOOSE s \in hit : \A t \in hit : s <= t)

cleanedMemory(profiles, memory, clock) ==
    MapDeleteAll(memory, staleProfiles(profiles, clock))

\* a variant that evicts the stale Profile and leaves its Conversation
JanitorEvictingProfiles ==
    /\ variant = "part_002"
    /\ userProfiles' = MapDeleteAll(userProfiles, staleProfiles(userProfiles, now))
    /\ UNCHANGED <<variant, now, conversationMemory, heap, inv, varsStore, varsHttp, varsSend, varsPure, varsLog>>

Janitor ==
    /\ variant = "part_002"
    /\ conversationMemory' = cleanedMemory(userProfiles, conversationMemory, now)
    /\ heap' = Collect(heap, conversationMemory', inv)
    /\ UNCHANGED <<variant, now, userProfiles, inv, varsStore, varsHttp, varsSend, varsPure, varsLog>>

\* time passes
Tick ==
    /\ now + TickHours * HourMs <= MaxClock
    /\ now' = now + TickHours * HourMs
    /\ UNCHANGED <<variant, vars002, varsStore, varsHttp, varsSend, varsPure, varsLog>>

----------------------------------------------------------------------------
(* The HTTP endpoints *)

\* part_002 lines 22-25: rateLimit({ windowMs: 15 * 60 * 1000, max: 100 })
LimiterWindowMs == 15 * 60 * 1000
LimiterMax == 100

\* a query parameter or body field that is absent
Missing == "undefined"

\* part_002 line 46, part_001 line 13, part_003 line 15
VERIFY_TOKEN == "ChatwMe_Bot_Secure_2024_XyZ789"

\* entry.id: the id of the page itself
PageId == Cardinality(Senders) + 1

Response(status, body) == [status |-> status, body |-> body]

\* the middleware of line 26 counts the request of the (single) client address
hit(lim, clock) ==
    IF clock >= lim.resetTime
    THEN [hits |-> 1, resetTime |-> clock + LimiterWindowMs]
    ELSE [lim EXCEPT !.hits = @ + 1]

TooManyRequests == Response(429, "Too many requests, please try again later.")

\* the variants with app.use(limiter)
Limited == {"part_002"}

\* what the client gets: the limiter's refusal, or the route handler's answer
throughLimiter(lim, answer) ==
    IF variant \in Limited /\ lim.hits > LimiterMax THEN TooManyRequests ELSE answer

\* part_002 lines 596-608
verifyWebhook002(mode, token, challenge) ==
    IF mode = "subscribe" /\ token = VERIFY_TOKEN
    THEN Response(200, challenge)
    ELSE Response(403, "Forbidden")

\* part_001 lines 169-188, part_003 lines 335-354
verifyWebhook001(mode, token, challenge) ==
    IF mode # Missing /\ mode # "" /\ token # Missing /\ token # ""
    THEN IF mode = "subscribe" /\ token = VERIFY_TOKEN
         THEN Response(200, challenge)
         ELSE Response(403, "Forbidden")
    ELSE Response(400, "Bad Request")

verifyWebhook(mode, token, challenge) ==
    IF variant = "part_002" THEN verifyWebhook002(mode, token, challenge)
    ELSE verifyWebhook001(mode, token, challenge)

Modes == {"subscribe", "unsubscribe", Missing}
Tokens == {VERIFY_TOKEN, "wrong", Missing}

\* GET /webhook
GetWebhook(mode, token, challenge) ==
    /\ Len(res) < MaxHttp
    /\ LET lim == IF variant \in Limited THEN hit(limiter, now) ELSE limiter
       IN  /\ limiter' = lim
           /\ res' = Append(res,
                  [method |-> "GET", mode |-> mode, token |-> token,
                   challenge |-> challenge, object |-> Missing,
                   response |-> throughLimiter(lim, verifyWebhook(mode, token, challenge))])
    /\ UNCHANGED <<variant, now, vars002, varsStore, immediates, varsSend, varsPure, varsLog>>

\* webhook payloads; a field an object does not carry is not in the record's
\* domain, a list is a record with items, any other value has no items
Has(object, field) == field \in DOMAIN object

List(items) == [items |-> items]

iterable(object, field) == Has(object, field) /\ Has(object[field], "items")

MessageEvent(sender, message) == [sender |-> sender, message |-> message]

Entry(messaging) == [id |-> PageId, messaging |-> messaging]

Page(entry) == [object |-> "page", entry |-> entry]

\* payloads in which every list is a list and every event has a sender
WellFormed ==
    { Page(List(<<>>)),
      Page(List(<<Entry(List(<<MessageEvent(1, [text |-> TxtHello])>>))>>)),
      Page(List(<<Entry(List(<<MessageEvent(1, [text |-> TxtHello]),
                               MessageEvent(2, [text |-> TxtHello])>>))>>)),
      Page(List(<<Entry(List(<<MessageEvent(1, [text |-> TxtHello])>>)),
                  Entry(List(<<MessageEvent(2, [attachments |-> <<"image">>])>>))>>)),
      Page(List(<<Entry(List(<<MessageEvent(PageId, [text |-> TxtHello]),
                               MessageEvent(2, [attachments |-> <<"image">>])>>))>>)),
      Page(List(<<Entry(List(<<[sender |-> 1,
                                postback |-> [title |-> "Start",
                                              payload |-> "GET_STARTED"]],
                               [sender |-> 1, delivery |-> [watermark |-> "w"]]>>))>>)),
      [object |-> "user",
       entry |-> List(<<Entry(List(<<MessageEvent(1, [text |-> TxtHello])>>))>>)] }

\* payloads with object 'page' and a missing or non-iterable list, or an
\* event without sender
Malformed ==
    { [object |-> "page"],
      Page([number |-> 5]),
      Page(List(<<[id |-> PageId]>>)),
      Page(List(<<Entry([number |-> 5])>>)),
      Page(List(<<Entry(List(<<MessageEvent(1, [text |-> TxtHello]),
                               [message |-> [text |-> TxtHello]]>>))>>)) }

Bodies == WellFormed \cup Malformed

\* what a handler's loop over the payload leaves: the calls it made or
\* queued, and whether it ended with a TypeError
Walked(calls, threw) == [calls |-> calls, threw |-> threw]

\* part_002 lines 628-630, 636-638: the callback handed to setImmediate
callback(webhookEvent, request, at) ==
    IF Has(webhookEvent, "message") THEN
        <<[senderId |-> webhookEvent.sender,
           messageText |-> IF Has(webhookEvent.message, "text")
                           THEN webhookEvent.message.text ELSE TxtEmpty,
           attachments |-> IF Has(webhookEvent.message, "attachments")
                           THEN webhookEvent.message.attachments
                           ELSE NoAttachments,
           request |-> request, at |-> at]>>
    ELSE IF Has(webhookEvent, "postback") THEN
        <<[senderId |-> webhookEvent.sender,
           messageText |-> <<webhookEvent.postback.title, ":",
                             webhookEvent.postback.payload>>,
           attachments |-> NoAttachments,
           request |-> request, at |-> at]>>
    ELSE <<>>

\* part_002 lines 617-640: for (const webhookEvent of entry.messaging), from
\* the k-th event of the j-th entry on
RECURSIVE queuedOf(_, _, _, _, _)
queuedOf(id, messaging, request, j, k) ==
    IF k > Len(messaging) THEN Walked(<<>>, FALSE)
    ELSE LET webhookEvent == messaging[k]
         IN  IF ~Has(webhookEvent, "sender") THEN Walked(<<>>, TRUE)
             ELSE LET rest == queuedOf(id, messaging, request, j, k + 1)
                      own == IF webhookEvent.sender = id THEN <<>>
                             ELSE callback(webhookEvent, request, <<j, k>>)
                  IN  Walked(own \o rest.calls, rest.threw)

\* part_002 lines 616-641: for (const entry of body.entry), from the j-th on
RECURSIVE queued(_, _, _)
queued(entry, request, j) ==
    IF j > Len(entry) THEN Walked(<<>>, FALSE)
    ELSE IF ~iterable(entry[j], "messaging") THEN Walked(<<>>, TRUE)
    ELSE LET first == queuedOf(entry[j].id, entry[j].messaging.items, request, j, 1)
         IN  IF first.threw THEN first
             ELSE LET rest == queued(entry, request, j + 1)
                  IN  Walked(first.calls \o rest.calls, rest.threw)

\* part_001 lines 194-205, part_003 lines 361-372: body.entry.forEach, from
\* the j-th entry on; only entry.messaging[0] is looked at
RECURSIVE called(_, _, _)
called(entry, request, j) ==
    IF j > Len(entry) THEN Walked(<<>>, FALSE)
    ELSE IF \/ ~iterable(entry[j], "messaging")
            \/ entry[j].messaging.items = <<>>
            \/ ~Has(entry[j].messaging.items[1], "sender")
         THEN Walked(<<>>, TRUE)
    ELSE LET webhookEvent == entry[j].messaging.items[1]
             own == IF Has(webhookEvent, "message") THEN
                        <<[fn |-> "handleMessage", senderId |-> webhookEvent.sender,
                           request |-> request, at |-> <<j, 1>>]>>
                    ELSE IF Has(webhookEvent, "postback") THEN
                        <<[fn |-> "handlePostback", senderId |-> webhookEvent.sender,
                           payload |-> webhookEvent.postback.payload,
                           request |-> request, at |-> <<j, 1>>]>>
                    ELSE <<>>
             rest == called(entry, request, j + 1)
         IN  Walked(own \o rest.calls, rest.threw)

\* the loop of the variant's handler over a payload with object 'page'
walk(body, request) ==
    IF ~iterable(body, "entry") THEN Walked(<<>>, TRUE)
    ELSE IF variant = "part_002" THEN queued(body.entry.items, request, 1)
    ELSE called(body.entry.items, request, 1)

\* part_002 lines 643-650; part_001 lines 207-210 (a TypeError leaves the
\* handler and Express answers 500)
answer(body, walked) ==
    IF body.object # "page"
    THEN Response(404, "Not Found")
    ELSE IF walked.threw THEN Response(500, "Internal Server Error")
    ELSE Response(200, "EVENT_RECEIVED")

\* part_001 lines 40-55, part_003 lines 214-227: the map after isRateLimited
rateLimiterAfter(limiterMap, userId, clock) ==
    LET userRequests == IF userId \in DOMAIN limiterMap
                        THEN limiterMap[userId] ELSE <<>>
        valid == SelectSeq(userRequests,
                           LAMBDA timestamp : clock - timestamp < 60 * 1000)
    IN  IF Len(valid) >= (IF variant = "part_001" THEN 30 ELSE 45) THEN limiterMap
        ELSE MapSet(limiterMap, userId, Append(valid, clock))

\* part_001/part_003: what the calls made by the handler do before their
\* first await: handleMessage calls isRateLimited, handlePostback stores the
\* welcome for GET_STARTED (part_001 lines 229, 515-519)
RECURSIVE begun(_, _)
begun(calls, stores) ==
    IF calls = <<>> THEN stores
    ELSE LET c == Head(calls)
             u == c.senderId
             convs == IF u \in DOMAIN stores.conversations
                      THEN stores.conversations
                      ELSE MapSet(stores.conversations, u, <<>>)
             pushed == Append(convs[u], [role |-> "assistant",
                                         message |-> stores.appended[u] + 1,
                                         timestamp |-> now])
             cap == IF variant = "part_001" THEN 20 ELSE 25
         IN  begun(Tail(calls),
                   IF c.fn = "handleMessage"
                   THEN [stores EXCEPT
                            !.rateLimiter = rateLimiterAfter(@, u, now),
                            !.activity = Append(@,
                                [fn |-> "isRateLimited", userId |-> u, at |-> now,
                                 limited |-> rateLimiterAfter(stores.rateLimiter, u, now)
                                                 = stores.rateLimiter])]
                   ELSE IF c.payload = "GET_STARTED"
                   THEN [stores EXCEPT
                            !.conversations =
                                MapSet(convs, u, IF Len(pushed) > cap
                                                 THEN Tail(pushed) ELSE pushed),
                            !.appended = [@ EXCEPT ![u] = @ + 1]]
                   ELSE stores)

\* POST /webhook
PostWebhook(body) ==
    /\ Len(res) < MaxHttp
    /\ LET lim == IF variant \in Limited THEN hit(limiter, now) ELSE limiter
           admitted == variant \notin Limited \/ lim.hits <= LimiterMax
           walked == IF admitted /\ body.object = "page"
                     THEN walk(body, Len(res) + 1) ELSE Walked(<<>>, FALSE)
           stores == begun(IF variant = "part_002" THEN <<>> ELSE walked.calls,
                           [rateLimiter |-> rateLimiter,
                            conversations |-> conversations,
                            appended |-> appended, activity |-> activity])
       IN  /\ Len(inv) + Len(immediates) + Len(walked.calls) <= MaxEvents
           /\ limiter' = lim
           /\ immediates' = IF variant = "part_002"
                            THEN immediates \o walked.calls ELSE immediates
           /\ rateLimiter' = stores.rateLimiter
           /\ conversations' = stores.conversations
           /\ appended' = stores.appended
           /\ activity' = stores.activity
           /\ res' = Append(res,
                  [method |-> "POST", mode |-> Missing, token |-> Missing,
                   challenge |-> Missing, object |-> body.object, body |-> body,
                   dispatched |-> walked.calls,
                   response |-> throughLimiter(lim, answer(body, walked))])
    /\ UNCHANGED <<variant, now, vars002, requests, varsSend, varsPure, timers>>

\* the event loop runs the oldest setImmediate callback (lines 628-630, 636-638)
RunImmediate ==
    /\ immediates # <<>>
    /\ processMessageCalled(Head(immediates).senderId, Head(immediates).messageText,
                            Head(immediates).attachments)
    /\ immediates' = Tail(immediates)
    /\ UNCHANGED <<variant, now, userProfiles, conversationMemory, heap, varsStore,
                   limiter, res, varsSend, varsPure, varsLog>>

----------------------------------------------------------------------------
(* part_001 / part_003: the conversations map and the rate limiter *)

StoreVariants == {"part_001", "part_003"}

\* part_001 line 27, part_003 line 68
MAX_CONVERSATION_LENGTH == IF variant = "part_001" THEN 20 ELSE 25

\* part_001 line 23, part_003 line 64
RATE_LIMIT_MAX_REQUESTS == IF variant = "part_001" THEN 30 ELSE 45

\* part_001 line 22, part_003 line 63
RATE_LIMIT_WINDOW == 60 * 1000

\* part_001 line 600, part_003 line 840
CleanupAgeMs == 60 * 60 * 1000

\* part_001 lines 111-116, part_003 lines 274-279: the map after the call
withConversationContext(convs, userId) ==
    IF userId \in DOMAIN convs THEN convs ELSE MapSet(convs, userId, <<>>)

getConversationContext(userId) ==
    /\ variant \in StoreVariants
    /\ userId \notin DOMAIN conversations
    /\ conversations' = withConversationContext(conversations, userId)
    /\ activity' = Append(activity, [fn |-> "getConversationContext", userId |-> userId,
                                     at |-> now, limited |-> FALSE])
    /\ UNCHANGED <<variant, now, vars002, varsHttp, varsSend, varsPure, timers, rateLimiter, appended, requests>>

\* a variant that drops the newest turn instead of the oldest
pushAndTrimNewest(conversation, turn, cap) ==
    LET pushed == Append(conversation, turn)
    IN  IF Len(pushed) > cap THEN SubSeq(pushed, 1, cap) ELSE pushed

\* part_001 lines 119-129, part_003 lines 281-290: the array after the call
pushAndTrim(conversation, turn, cap) ==
    LET pushed == Append(conversation, turn)
    IN  IF Len(pushed) > cap THEN Tail(pushed) ELSE pushed

\* callers append the user's message and then the assistant's (part_001 lines
\* 266-267, 323-324, 450-451, 492-493)
roleOf(n) == IF n % 2 = 1 THEN "user" ELSE "assistant"

\* the message of a call is tagged with its number among the calls made for
\* that user since the user's entry was created
addToConversation(userId, role) ==
    /\ variant \in StoreVariants
    /\ appended[userId] < (MAX_CONVERSATION_LENGTH - 1) + MaxAppends
    /\ LET message == appended[userId] + 1
           convs == withConversationContext(conversations, userId)
       IN  conversations' =
               MapSet(convs, userId,
                      pushAndTrim(convs[userId],
                                  [role |-> role, message |-> message, timestamp |-> now],
                                  MAX_CONVERSATION_LENGTH))
    /\ appended' = [appended EXCEPT ![userId] = @ + 1]
    /\ UNCHANGED <<variant, now, vars002, varsHttp, varsSend, varsPure, varsLog, rateLimiter, requests>>

\* part_001 lines 40-55, part_003 lines 214-227
validRequests(userRequests, clock) ==
    SelectSeq(userRequests, LAMBDA timestamp : clock - timestamp < RATE_LIMIT_WINDOW)

isRateLimited(userId) ==
    /\ variant \in StoreVariants
    /\ requests < MaxRequests
    /\ requests' = requests + 1
    /\ LET userRequests == IF userId \in DOMAIN rateLimiter
                           THEN rateLimiter[userId] ELSE <<>>
           valid == validRequests(userRequests, now)
       IN  /\ rateLimiter' =
                  IF Len(valid) >= RATE_LIMIT_MAX_REQUESTS THEN rateLimiter
                  ELSE MapSet(rateLimiter, userId, Append(valid, now))
           /\ activity' = Append(activity,
                  [fn |-> "isRateLimited", userId |-> userId, at |-> now,
                   limited |-> Len(valid) >= RATE_LIMIT_MAX_REQUESTS])
    /\ UNCHANGED <<variant, now, vars002, varsHttp, varsSend, varsPure, timers, conversations, appended>>

\* part_001 lines 599-614, part_003 lines 839-854: the hourly cron job
expiredConversations(convs, clock) ==
    {userId \in DOMAIN convs :
        /\ convs[userId] # <<>>
        /\ convs[userId][Len(convs[userId])].timestamp < clock - CleanupAgeMs}

cleanedConversations(convs, clock) ==
    MapDeleteAll(convs, expiredConversations(convs, clock))

Cleanup ==
    /\ variant \in StoreVariants
    /\ conversations' = cleanedConversations(conversations, now)
    /\ rateLimiter' = EmptyMap
    /\ appended' = [userId \in Senders |->
                       IF userId \in expiredConversations(conversations, now)
                       THEN 0 ELSE appended[userId]]
    /\ UNCHANGED <<variant, now, vars002, varsHttp, varsSend, varsPure, varsLog, requests>>

\* part_001 lines 328-338, part_003 lines 450-458: the AI request made for
\* an admitted message fails with a quota error; the handler arms a timer
QuotaErrorDelayMs == 30000

QuotaError(senderId) ==
    /\ variant \in StoreVariants
    /\ Cardinality(timers) < MaxTimers
    /\ \E k \in 1 .. Len(activity) :
           /\ activity[k].fn = "isRateLimited"
           /\ activity[k].userId = senderId
           /\ ~activity[k].limited
    /\ timers' = timers \cup {[senderId |-> senderId, due |-> now + QuotaErrorDelayMs]}
    /\ UNCHANGED <<variant, now, vars002, varsStore, varsHttp, varsSend, varsPure, activity>>

\* the callback of that timer: rateLimiter.delete(senderId)
ResetTimerFired ==
    /\ \E t \in timers :
           /\ now >= t.due
           /\ rateLimiter' = MapDelete(rateLimiter, t.senderId)
           /\ timers' = timers \ {t}
    /\ UNCHANGED <<variant, now, vars002, conversations, appended, requests,
                   varsHttp, varsSend, varsPure, activity>>

\* half a minute passes
Elapse ==
    /\ now + QuotaErrorDelayMs <= MaxWaits * QuotaErrorDelayMs
    /\ now' = now + QuotaErrorDelayMs
    /\ UNCHANGED <<variant, vars002, varsStore, varsHttp, varsSend, varsPure, varsLog>>

----------------------------------------------------------------------------
(* part_001 / part_003: handleMessage for a message without text, and      *)
(* handleAttachments (part_001 lines 222-257, 380-409, 472-506; part_003   *)
(* lines 380-407, 467-612)                                                 *)

AttachmentTypes == {"image", "audio", "video", "file", "location"}

\* part_001 lines 58-68, part_003 lines 84-106, applied to a stored message
\* whose language is known
lastUserLanguage(conversation) ==
    LET users == {k \in 1 .. Len(conversation) : conversation[k].role = "user"}
    IN  IF users = {} THEN "english"
        ELSE conversation[CHOOSE k \in users : \A j \in users : j <= k].language

\* part_001 lines 143-166, part_003 lines 303-330
getErrorMessage(language, errorType) ==
    [kind |-> "error", language |-> language, arg |-> errorType]

\* part_001 lines 483-490: the acknowledgement of a voice message
voiceAcknowledgement(userLanguage) ==
    [kind |-> "voice",
     language |-> IF userLanguage \in {"arabic", "french"} THEN userLanguage
                  ELSE "english",
     arg |-> ""]

\* part_003 lines 590-608: detectLanguage('') is 'english', never 'darija'
attachmentNotice(type) ==
    [kind |-> IF type \in {"video", "file"} THEN type ELSE "received",
     language |-> "english", arg |-> ""]

imageReply(userLanguage, ok) ==
    [kind |-> IF ok THEN "image" ELSE "image_error", language |-> userLanguage,
     arg |-> ""]

\* the stores after addToConversation(senderId, 'user', placeholder) and
\* addToConversation(senderId, 'assistant', responseMessage)
exchangeStored(stores, senderId, reply) ==
    LET convs == withConversationContext(stores.conversations, senderId)
        n == stores.appended[senderId]
        user == [role |-> "user", message |-> n + 1, timestamp |-> now,
                 language |-> "english"]
        assistant == [role |-> "assistant", message |-> n + 2, timestamp |-> now,
                      language |-> reply.language]
    IN  [stores EXCEPT
            !.conversations =
                MapSet(convs, senderId,
                       pushAndTrim(pushAndTrim(convs[senderId], user,
                                               MAX_CONVERSATION_LENGTH),
                                   assistant, MAX_CONVERSATION_LENGTH)),
            !.appended = [@ EXCEPT ![senderId] = n + 2]]

\* getConversationContext(senderId) called by a handler
contextRead(stores, senderId) ==
    [stores EXCEPT
        !.conversations = withConversationContext(@, senderId),
        !.activity = IF senderId \in DOMAIN stores.conversations THEN @
                     ELSE Append(@, [fn |-> "getConversationContext",
                                     userId |-> senderId, at |-> now,
                                     limited |-> FALSE])]

sent(h, pc, reply) ==
    [h EXCEPT !.pc = pc, !.calls = Append(@, Call("send", reply))]

\* handleAttachments from the attachment at h.at up to the next await; a
\* function the file does not define throws a ReferenceError, which
\* handleMessage catches (part_001 lines 249-253, part_003 lines 399-403)
handleAttachments(h, stores) ==
    IF h.at > Len(h.attachments) THEN
        [handler |-> [h EXCEPT !.pc = "typing_off",
                               !.calls = Append(@, Call("typing_off", NoReply))],
         stores |-> stores]
    ELSE LET type == h.attachments[h.at]
             read == contextRead(stores, h.senderId)
             userLanguage == lastUserLanguage(read.conversations[h.senderId])
         IN  IF type = "image" THEN
                 [handler |-> [h EXCEPT !.pc = "image_analysis",
                                        !.calls = Append(@, Call("image", NoReply))],
                  stores |-> read]
             ELSE IF type = "audio" /\ variant = "part_001" THEN
                 [handler |-> sent(h, "reply", voiceAcknowledgement(userLanguage)),
                  stores |-> exchangeStored(read, h.senderId,
                                            voiceAcknowledgement(userLanguage))]
             ELSE IF type = "audio" THEN
                 [handler |-> sent(h, "error_reply",
                                   getErrorMessage("english", "general")),
                  stores |-> stores]
             ELSE
                 [handler |-> sent(h, "reply", attachmentNotice(type)),
                  stores |-> stores]

Stores ==
    [rateLimiter |-> rateLimiter, conversations |-> conversations,
     appended |-> appended, activity |-> activity]

StoresBecome(stores) ==
    /\ rateLimiter' = stores.rateLimiter
    /\ conversations' = stores.conversations
    /\ appended' = stores.appended
    /\ activity' = stores.activity

\* handleMessage(senderId, message) with message.attachments and no
\* message.text, up to its first await
handleMessage(senderId, attachments) ==
    /\ variant \in StoreVariants
    /\ Len(inv) < MaxEvents
    /\ LET userRequests == IF senderId \in DOMAIN rateLimiter
                           THEN rateLimiter[senderId] ELSE <<>>
           limited == Len(validRequests(userRequests, now)) >= RATE_LIMIT_MAX_REQUESTS
           h == [pc |-> "typing_on", senderId |-> senderId,
                 attachments |-> attachments, at |-> 1, conversation |-> NoArr,
                 calls |-> <<>>]
       IN  /\ rateLimiter' = rateLimiterAfter(rateLimiter, senderId, now)
           /\ activity' = Append(activity,
                  [fn |-> "isRateLimited", userId |-> senderId, at |-> now,
                   limited |-> limited])
           /\ inv' = Append(inv,
                  IF limited
                  THEN sent(h, "rate_limit_reply", getErrorMessage("english", "rateLimit"))
                  ELSE [h EXCEPT !.calls = <<Call("typing_on", NoReply)>>])
    /\ UNCHANGED <<variant, now, userProfiles, conversationMemory, heap,
                   conversations, appended, requests, varsHttp, varsSend,
                   varsPure, timers>>

\* sendTypingIndicator(senderId, 'typing_on') returns (it swallows failures)
TypingIndicatorOn(i) ==
    /\ variant \in StoreVariants
    /\ inv[i].pc = "typing_on"
    /\ LET r == handleAttachments(inv[i], Stores)
       IN  /\ inv' = [inv EXCEPT ![i] = r.handler]
           /\ StoresBecome(r.stores)
    /\ UNCHANGED <<variant, now, userProfiles, conversationMemory, heap,
                   requests, varsHttp, varsSend, varsPure, timers>>

\* the image was analysed, or the download or the analysis threw (part_001
\* lines 392-466, part_003 lines 472-573)
ImageAnalysed(i, ok) ==
    /\ inv[i].pc = "image_analysis"
    /\ LET senderId == inv[i].senderId
           userLanguage == lastUserLanguage(conversations[senderId])
           reply == imageReply(userLanguage, ok)
       IN  /\ inv' = [inv EXCEPT ![i] = sent(@, "reply", reply)]
           /\ StoresBecome(IF ok THEN exchangeStored(Stores, senderId, reply)
                           ELSE Stores)
    /\ UNCHANGED <<variant, now, userProfiles, conversationMemory, heap,
                   requests, varsHttp, varsSend, varsPure, timers>>

\* sendTextMessage returns (it never throws): the loop goes on, the catch
\* block falls into finally, or the rate-limited handler returns
TextMessageSent(i) ==
    /\ inv[i].pc \in {"reply", "error_reply", "rate_limit_reply"}
    /\ LET r == IF inv[i].pc = "reply"
                THEN handleAttachments([inv[i] EXCEPT !.at = @ + 1], Stores)
                ELSE [handler |->
                          IF inv[i].pc = "rate_limit_reply"
                          THEN [inv[i] EXCEPT !.pc = "returned"]
                          ELSE [inv[i] EXCEPT
                                   !.pc = "typing_off",
                                   !.calls = Append(@, Call("typing_off", NoReply))],
                      stores |-> Stores]
       IN  /\ inv' = [inv EXCEPT ![i] = r.handler]
           /\ StoresBecome(r.stores)
    /\ UNCHANGED <<variant, now, userProfiles, conversationMemory, heap,
                   requests, varsHttp, varsSend, varsPure, timers>>

\* the typing_off of the finally block returns
TypingIndicatorOff(i) ==
    /\ variant \in StoreVariants
    /\ inv[i].pc = "typing_off"
    /\ inv' = [inv EXCEPT ![i].pc = "returned"]
    /\ UNCHANGED <<variant, now, userProfiles, conversationMemory, heap,
                   varsStore, varsHttp, varsSend, varsPure, varsLog>>

----------------------------------------------------------------------------
(* part_001 / part_003: sendTextMessage (part_001 lines 529-573, part_003 *)
(* lines 634-678, the same text in server.js lines 1621-1665)             *)

maxAttempts == 3

\* a variant that waits the same time before every retry
retryDelayFixed(attempts) == 1000

\* line 570: setTimeout(resolve, 1000 * attempts)
retryDelay(attempts) == 1000 * attempts

\* lines 529-545: the call runs up to its first axios.post, or returns at once
\* when PAGE_ACCESS_TOKEN is not set
sendTextMessage(recipientId, messageText, tokenSet) ==
    /\ variant \in StoreVariants
    /\ delivery.pc \in {"idle", "returned"}
    /\ delivery.call < MaxCalls
    /\ delivery' = [pc |-> IF tokenSet THEN "post" ELSE "returned",
                    call |-> delivery.call + 1,
                    recipientId |-> recipientId, messageText |-> messageText,
                    tokenSet |-> tokenSet,
                    attempts |-> 0,
                    posts |-> IF tokenSet THEN 1 ELSE 0,
                    waits |-> <<>>,
                    delivered |-> FALSE]
    /\ UNCHANGED <<variant, now, vars002, varsStore, varsHttp, sending, varsPure, varsLog>>

\* lines 545-570: the request is answered, or fails
PostAnswered(ok) ==
    /\ delivery.pc = "post"
    /\ delivery' =
           IF ok THEN [delivery EXCEPT !.pc = "returned", !.delivered = TRUE]
           ELSE LET attempts == delivery.attempts + 1
                IN  IF attempts >= maxAttempts
                    THEN [delivery EXCEPT !.pc = "returned", !.attempts = attempts]
                    ELSE [delivery EXCEPT !.pc = "wait", !.attempts = attempts,
                                          !.waits = Append(@, retryDelay(attempts))]
    /\ UNCHANGED <<variant, now, vars002, varsStore, varsHttp, sending, varsPure, varsLog>>

\* the timer of line 570 fires; the loop makes the next request (line 545)
RetryTimerFired ==
    /\ delivery.pc = "wait"
    /\ now' = now + delivery.waits[Len(delivery.waits)]
    /\ delivery' = [delivery EXCEPT !.pc = "post", !.posts = @ + 1]
    /\ UNCHANGED <<variant, vars002, varsStore, varsHttp, sending, varsPure, varsLog>>

----------------------------------------------------------------------------
(* part_002: sendMessage without buttons (lines 376-431).  A text is a    *)
(* sequence of runs of equal characters; "x" stands for a character that  *)
(* is neither whitespace nor a line terminator, " " for a blank and "LF"  *)
(* for a newline.  Positions are counted from 1.                          *)

Run(ch, n) == [ch |-> ch, n |-> n]

Whitespace == {" ", "LF"}       \* what \s matches and trim() removes
LineTerminators == {"LF"}       \* what . does not match

RECURSIVE length(_)
length(text) == IF text = <<>> THEN 0 ELSE Head(text).n + length(Tail(text))

RECURSIVE charAt(_, _)
charAt(text, p) ==
    IF p <= Head(text).n THEN Head(text).ch
    ELSE charAt(Tail(text), p - Head(text).n)

RECURSIVE positionsOf(_, _, _)
positionsOf(text, kinds, offset) ==
    IF text = <<>> THEN {}
    ELSE (IF Head(text).ch \in kinds
          THEN (offset + 1) .. (offset + Head(text).n) ELSE {})
         \cup positionsOf(Tail(text), kinds, offset + Head(text).n)

SetMax(S) == CHOOSE a \in S : \A b \in S : b <= a
SetMin(S) == CHOOSE a \in S : \A b \in S : a <= b

\* line 401 and the regular expression of line 402
splitAbove == 2000
chunkSize == 1900
chunkCap == 3

\* where (\s|$) can match: at a whitespace character, or at the end of the
\* input (position length + 1)
stops(text) == positionsOf(text, Whitespace, 0) \cup {length(text) + 1}

lastTerminatorBefore(text, e) ==
    SetMax({0} \cup {p \in positionsOf(text, LineTerminators, 0) : p < e})

\* the leftmost start, not before lastIndex, of a match that stops at e
earliestStart(text, lastIndex, e, size) ==
    SetMax({lastIndex, e - size, lastTerminatorBefore(text, e) + 1})

\* one exec of /.{1,size}(\s|$)/g: the leftmost match, the longest from there;
\* <<>> when there is none
nextMatch(text, lastIndex, size) ==
    LET reachable == {e \in stops(text) : earliestStart(text, lastIndex, e, size) < e}
    IN  IF reachable = {} THEN <<>>
        ELSE LET from == SetMin({earliestStart(text, lastIndex, e, size) : e \in reachable})
                 e == SetMax({d \in stops(text) :
                                 /\ from < d
                                 /\ d <= from + size
                                 /\ lastTerminatorBefore(text, d) < from})
             IN  <<[from |-> from, to |-> IF e > length(text) THEN length(text) ELSE e]>>

RECURSIVE matchAll(_, _, _)
matchAll(text, lastIndex, size) ==
    LET m == nextMatch(text, lastIndex, size)
    IN  IF m = <<>> THEN <<>> ELSE m \o matchAll(text, m[1].to + 1, size)

\* a variant with the pattern /.{1,2100}(\s|$)/g
chunksOfWide(text) ==
    LET found == matchAll(text, 1, 2100)
    IN  IF found = <<>> THEN <<[from |-> 1, to |-> length(text)]>> ELSE found

\* line 402: messageText.match(/.{1,1900}(\s|$)/g) || [messageText]
chunksOf(text) ==
    LET found == matchAll(text, 1, chunkSize)
    IN  IF found = <<>> THEN <<[from |-> 1, to |-> length(text)]>> ELSE found

\* chunks[i].trim(), as the part of the text it is (empty: to < from)
trimmed(text, chunk) ==
    LET blank == positionsOf(text, Whitespace, 0)
        near == Cardinality(blank)
        heads == {p \in chunk.from .. (chunk.from + near) : p <= chunk.to /\ p \notin blank}
        tails == {p \in (chunk.to - near) .. chunk.to : p >= chunk.from /\ p \notin blank}
    IN  IF heads = {} THEN [from |-> chunk.from, to |-> chunk.from - 1]
        ELSE [from |-> SetMin(heads), to |-> SetMax(tails)]

size(part) == part.to - part.from + 1

\* lines 403-404 for index i (from 0): the recursive call sendMessage(senderId,
\* chunks[i].trim()) runs up to its axios.post (line 414), unless its text is
\* again longer than 2000 characters
sendChunk(call, i) ==
    LET part == trimmed(call.messageText, call.chunks[i + 1])
    IN  IF size(part) > splitAbove
        THEN [call EXCEPT !.pc = "resplit", !.i = i]
        ELSE [call EXCEPT !.pc = "post", !.i = i, !.posted = Append(@, part)]

\* the loop condition of line 403
nextChunk(call, i) ==
    IF i < Len(call.chunks) /\ i < chunkCap
    THEN sendChunk(call, i)
    ELSE [call EXCEPT !.pc = "returned", !.i = i]

\* sendMessage(senderId, messageText) runs up to its first axios.post
sendMessage(messageText) ==
    /\ variant = "part_002"
    /\ sending.pc = "idle"
    /\ sending' =
           LET call == [pc |-> "post", messageText |-> messageText, i |-> 0,
                        split |-> length(messageText) > splitAbove,
                        chunks |-> IF length(messageText) > splitAbove
                                   THEN chunksOf(messageText) ELSE <<>>,
                        posted |-> <<>>]
           IN  IF call.split THEN nextChunk(call, 0)
               ELSE [call EXCEPT !.posted = <<[from |-> 1, to |-> length(messageText)]>>]
    /\ UNCHANGED <<variant, now, vars002, varsStore, varsHttp, delivery, varsPure, varsLog>>

\* the axios.post of line 414 resolves, or rejects and sendMessage throws
\* (line 429); after a chunk that is not the last one, line 406 waits
ChunkPosted(ok) ==
    /\ sending.pc = "post"
    /\ sending' =
           IF ~ok THEN [sending EXCEPT !.pc = "threw"]
           ELSE IF ~sending.split THEN [sending EXCEPT !.pc = "returned"]
           ELSE IF sending.i < Len(sending.chunks) - 1
                THEN [sending EXCEPT !.pc = "wait"]
                ELSE nextChunk(sending, sending.i + 1)
    /\ UNCHANGED <<variant, now, vars002, varsStore, varsHttp, delivery, varsPure, varsLog>>

\* the timer of line 406 fires
ChunkTimerFired ==
    /\ sending.pc = "wait"
    /\ now' = now + 1000
    /\ sending' = nextChunk(sending, sending.i + 1)
    /\ UNCHANGED <<variant, vars002, varsStore, varsHttp, delivery, varsPure, varsLog>>

\* the texts handed to sendMessage
WordLengths == {1, 1900, 1901, 2500}

Runs == {Run("x", n) : n \in WordLengths}
        \cup {Run(" ", 1), Run(" ", 2), Run("LF", 1)}

\* k words of n characters, with one separator between two words
RECURSIVE Words(_, _, _)
Words(n, separator, k) ==
    IF k = 1 THEN <<Run("x", n)>>
    ELSE <<Run("x", n), separator>> \o Words(n, separator, k - 1)

MessageTexts ==
    {text \in UNION {[1 .. k -> Runs] : k \in 1 .. MaxRuns} :
        \A k \in 1 .. (Len(text) - 1) : text[k].ch # text[k + 1].ch}
    \cup {Words(n, separator, k) : n \in WordLengths,
                                   separator \in {Run(" ", 1), Run("LF", 1)},
                                   k \in 2 .. MaxWords}

----------------------------------------------------------------------------
(* Initial states *)

\* the exchange a FreeForm message leaves in the conversation
Exchange == << [role |-> "user", content |-> TxtHello],
               [role |-> "assistant", content |-> "completion"] >>

RECURSIVE Exchanges(_)
Exchanges(n) == IF n = 0 THEN <<>> ELSE Exchange \o Exchanges(n - 1)

\* part_002 after a sender was welcomed and then sent ten FreeForm messages
\* that were processed one after the other
ReturningProfile ==
    [firstName |-> "Ann", messageCount |-> 11,
     isWelcomed |-> TRUE, lastMessageTime |-> 0]

\* part_001/part_003 after n alternating addToConversation calls at time 0
RECURSIVE Turns(_)
Turns(n) ==
    IF n = 0 THEN <<>>
    ELSE Append(Turns(n - 1),
                [role |-> roleOf(n), message |-> n, timestamp |-> 0])

\* express-rate-limit when the server starts (part_002 lines 22-26)
NoHits == [hits |-> 0, resetTime |-> LimiterWindowMs]

\* no sendMessage / sendTextMessage call is in progress
NoSending == [pc |-> "idle", split |-> FALSE]

NoDelivery == [pc |-> "idle", call |-> 0]

\* LanguageDetector.detect was not called yet
NoDetection == [pc |-> "idle"]

IdleHttp ==
    /\ limiter = NoHits
    /\ res = <<>>
    /\ immediates = <<>>

IdleSend ==
    /\ sending = NoSending
    /\ delivery = NoDelivery
    /\ classified = NoDetection

\* no call was made and no timer is pending
IdleLog ==
    /\ activity = <<>>
    /\ timers = {}

Init002 ==
    /\ now = 0
    /\ variant = "part_002"
    /\ \E returning \in {{}, Senders} :
        /\ userProfiles = [s \in returning |-> ReturningProfile]
        /\ conversationMemory = [s \in returning |-> s]
        /\ heap = [a \in ArrIds |-> IF a \in returning
                                    THEN Exchanges(ConversationKeep \div 2) ELSE <<>>]
    /\ inv = <<>>
    /\ conversations = EmptyMap
    /\ rateLimiter = EmptyMap
    /\ appended = [s \in Senders |-> 0]
    /\ requests = 0
    /\ IdleHttp
    /\ IdleSend
    /\ IdleLog

InitStore ==
    /\ now = 0
    /\ variant \in StoreVariants
    /\ conversations = [s \in Senders |-> Turns(MAX_CONVERSATION_LENGTH - 1)]
    /\ appended = [s \in Senders |-> MAX_CONVERSATION_LENGTH - 1]
    /\ rateLimiter = EmptyMap
    /\ requests = 0
    /\ userProfiles = EmptyMap
    /\ conversationMemory = EmptyMap
    /\ heap = [a \in ArrIds |-> <<>>]
    /\ inv = <<>>
    /\ IdleHttp
    /\ IdleSend
    /\ IdleLog

\* part_002: events are handled as independent asynchronous tasks
Next002 ==
    \/ \E s \in Senders : \E e \in Inbound(s) : StartProcessMessage(s, e[1], e[2])
    \/ \E i \in 1 .. Len(inv) : MarkSeenDone(i)
    \/ \E i \in 1 .. Len(inv) : TypingOnDone(i)
    \/ \E i \in 1 .. Len(inv), firstName \in FirstNames : ProfileFetched(i, firstName)
    \/ \E i \in 1 .. Len(inv) : TypingOffDone(i)
    \/ \E i \in 1 .. Len(inv), ok \in BOOLEAN : SendDone(i, ok)
    \/ \E i \in 1 .. Len(inv) : CatchTypingOffDone(i)
    \/ \E i \in 1 .. Len(inv), ok \in BOOLEAN : CatchSendDone(i, ok)
    \/ \E i \in 1 .. Len(inv) : ThinkDone(i)
    \/ \E i \in 1 .. Len(inv), ok \in BOOLEAN, c \in Completions : GroqPrimaryDone(i, ok, c)
    \/ \E i \in 1 .. Len(inv), ok \in BOOLEAN, c \in Completions : GroqFallbackDone(i, ok, c)
    \/ Janitor
    \/ Tick

\* part_002 when every event arrives after the previous one was fully handled
StartAfterReturn(senderId, messageText, attachments) ==
    /\ \A j \in 1 .. Len(inv) : ~Running(inv[j])
    /\ StartProcessMessage(senderId, messageText, attachments)

NextSeq ==
    \/ \E s \in Senders : \E e \in Inbound(s) : StartAfterReturn(s, e[1], e[2])
    \/ \E i \in 1 .. Len(inv) : MarkSeenDone(i)
    \/ \E i \in 1 .. Len(inv) : TypingOnDone(i)
    \/ \E i \in 1 .. Len(inv), firstName \in FirstNames : ProfileFetched(i, firstName)
    \/ \E i \in 1 .. Len(inv) : TypingOffDone(i)
    \/ \E i \in 1 .. Len(inv), ok \in BOOLEAN : SendDone(i, ok)
    \/ \E i \in 1 .. Len(inv) : CatchTypingOffDone(i)
    \/ \E i \in 1 .. Len(inv), ok \in BOOLEAN : CatchSendDone(i, ok)
    \/ \E i \in 1 .. Len(inv) : ThinkDone(i)
    \/ \E i \in 1 .. Len(inv), ok \in BOOLEAN, c \in Completions : GroqPrimaryDone(i, ok, c)
    \/ \E i \in 1 .. Len(inv), ok \in BOOLEAN, c \in Completions : GroqFallbackDone(i, ok, c)
    \/ Janitor
    \/ Tick

NextStore ==
    \/ \E u \in Senders : getConversationContext(u)
    \/ \E u \in Senders : addToConversation(u, roleOf(appended[u] + 1))
    \/ \E u \in Senders : isRateLimited(u)
    \/ Cleanup
    \/ Tick

\* part_002 with concurrent handlers
Spec == Init002 /\ [][Next002]_vars

\* part_002 with one handler at a time
SpecSeq == Init002 /\ [][NextSeq]_vars

\* part_001 / part_003: the conversations map and the rate limiter
SpecStore == InitStore /\ [][NextStore]_vars

\* part_002 answering free-form messages one at a time
NextFreeForm ==
    \/ \E s \in Senders : \E e \in InboundFreeForm(s) : StartAfterReturn(s, e[1], e[2])
    \/ \E i \in 1 .. Len(inv) : MarkSeenDone(i)
    \/ \E i \in 1 .. Len(inv) : TypingOnDone(i)
    \/ \E i \in 1 .. Len(inv), firstName \in FirstNames : ProfileFetched(i, firstName)
    \/ \E i \in 1 .. Len(inv) : TypingOffDone(i)
    \/ \E i \in 1 .. Len(inv), ok \in BOOLEAN : SendDone(i, ok)
    \/ \E i \in 1 .. Len(inv) : CatchTypingOffDone(i)
    \/ \E i \in 1 .. Len(inv), ok \in BOOLEAN : CatchSendDone(i, ok)
    \/ \E i \in 1 .. Len(inv) : ThinkDone(i)
    \/ \E i \in 1 .. Len(inv), ok \in BOOLEAN, c \in Completions : GroqPrimaryDone(i, ok, c)
    \/ \E i \in 1 .. Len(inv), ok \in BOOLEAN, c \in Completions : GroqFallbackDone(i, ok, c)

SpecFreeForm == Init002 /\ [][NextFreeForm]_vars

\* part_002 after each known sender sent one message, which was answered
\* with the welcome: the Profile is stored, no Conversation is
WelcomedProfile ==
    [firstName |-> "Ann", messageCount |-> 1, isWelcomed |-> TRUE,
     lastMessageTime |-> 0]

InitWelcomed ==
    /\ now = 0
    /\ variant = "part_002"
    /\ \E known \in {{}, Senders} :
           userProfiles = [s \in known |-> WelcomedProfile]
    /\ conversationMemory = EmptyMap
    /\ heap = [a \in ArrIds |-> <<>>]
    /\ inv = <<>>
    /\ conversations = EmptyMap
    /\ rateLimiter = EmptyMap
    /\ appended = [s \in Senders |-> 0]
    /\ requests = 0
    /\ IdleHttp
    /\ IdleSend
    /\ IdleLog

\* part_002 answering free-form messages with concurrent handlers, within
\* one retention window (the cleanup job finds nothing to evict)
NextOverlap ==
    \/ \E s \in Senders : \E e \in InboundFreeForm(s) : StartProcessMessage(s, e[1], e[2])
    \/ \E i \in 1 .. Len(inv) : MarkSeenDone(i)
    \/ \E i \in 1 .. Len(inv) : TypingOnDone(i)
    \/ \E i \in 1 .. Len(inv), firstName \in FirstNames : ProfileFetched(i, firstName)
    \/ \E i \in 1 .. Len(inv) : TypingOffDone(i)
    \/ \E i \in 1 .. Len(inv), ok \in BOOLEAN : SendDone(i, ok)
    \/ \E i \in 1 .. Len(inv) : CatchTypingOffDone(i)
    \/ \E i \in 1 .. Len(inv), ok \in BOOLEAN : CatchSendDone(i, ok)
    \/ \E i \in 1 .. Len(inv) : ThinkDone(i)
    \/ \E i \in 1 .. Len(inv), ok \in BOOLEAN, c \in Completions : GroqPrimaryDone(i, ok, c)
    \/ \E i \in 1 .. Len(inv), ok \in BOOLEAN, c \in Completions : GroqFallbackDone(i, ok, c)

SpecOverlap == InitWelcomed /\ [][NextOverlap]_vars

\* part_001 / part_003: message delivery
NextDeliver ==
    \/ \E recipientId \in Senders, messageText \in {TxtHello, TxtFrench},
          tokenSet \in BOOLEAN : sendTextMessage(recipientId, messageText, tokenSet)
    \/ \E ok \in BOOLEAN : PostAnswered(ok)
    \/ RetryTimerFired

SpecDeliver == InitStore /\ [][NextDeliver]_vars

\* part_002: one sendMessage call
NextSend ==
    \/ \E messageText \in MessageTexts : sendMessage(messageText)
    \/ \E ok \in BOOLEAN : ChunkPosted(ok)
    \/ ChunkTimerFired

SpecSend == Init002 /\ [][NextSend]_vars

\* the HTTP endpoints of every variant; the limiter of part_002 has counted
\* no request yet, or all but one of the requests it admits in a window
InitHttp ==
    /\ now = 0
    /\ variant \in {"part_002"} \cup StoreVariants
    /\ limiter \in {NoHits, [NoHits EXCEPT !.hits = LimiterMax - 1]}
    /\ variant \notin Limited => limiter = NoHits
    /\ res = <<>>
    /\ immediates = <<>>
    /\ userProfiles = EmptyMap
    /\ conversationMemory = EmptyMap
    /\ heap = [a \in ArrIds |-> <<>>]
    /\ inv = <<>>
    /\ conversations = EmptyMap
    /\ rateLimiter = EmptyMap
    /\ appended = [s \in Senders |-> 0]
    /\ requests = 0
    /\ IdleSend
    /\ IdleLog

NextHttp ==
    \/ \E mode \in Modes, token \in Tokens : GetWebhook(mode, token, "challenge")
    \/ \E body \in Bodies : PostWebhook(body)
    \/ RunImmediate
    \/ \E i \in 1 .. Len(inv) : MarkSeenDone(i)
    \/ \E i \in 1 .. Len(inv) : TypingOnDone(i)
    \/ \E i \in 1 .. Len(inv), firstName \in FirstNames : ProfileFetched(i, firstName)
    \/ \E i \in 1 .. Len(inv) : TypingOffDone(i)
    \/ \E i \in 1 .. Len(inv), ok \in BOOLEAN : SendDone(i, ok)
    \/ \E i \in 1 .. Len(inv) : CatchTypingOffDone(i)
    \/ \E i \in 1 .. Len(inv), ok \in BOOLEAN : CatchSendDone(i, ok)
    \/ \E i \in 1 .. Len(inv) : ThinkDone(i)
    \/ \E i \in 1 .. Len(inv), ok \in BOOLEAN, c \in Completions : GroqPrimaryDone(i, ok, c)
    \/ \E i \in 1 .. Len(inv), ok \in BOOLEAN, c \in Completions : GroqFallbackDone(i, ok, c)
    \/ Tick

SpecHttp == InitHttp /\ [][NextHttp]_vars

\* LanguageDetector.detect (part_002 lines 91-119, part_000 lines 83-105)

\* a text in which French and English keywords score the same
TxtTie == <<"oui", "hello", "you">>

\* part_000 lines 60-81: the keys of patterns, and their weights
LanguageKeys000 == <<"arabic", "darija", "french", "english">>

weightOf(lang) == IF lang = "darija" THEN 4 ELSE weight(lang)

languageKeys == IF variant = "part_000" THEN LanguageKeys000 ELSE LanguageKeys

\* the scores one language can get: multiples of its weight, and in part_002
\* 10 more for Arabic script
attainable(lang) ==
    {n \in 0 .. MaxScore :
        \/ n % weightOf(lang) = 0
        \/ variant = "part_002" /\ lang = "arabic" /\ n >= 10 /\ (n - 10) % 3 = 0}

ScoreVectors ==
    {scores \in [{languageKeys[k] : k \in 1 .. Len(languageKeys)} -> 0 .. MaxScore] :
        \A lang \in DOMAIN scores : scores[lang] \in attainable(lang)}

\* part_002 lines 111-118, part_000 lines 99-104
detectAmong(keys, scores) ==
    LET detectedLang == reduceMax(scores, Head(keys), Tail(keys))
    IN  IF scores[detectedLang] > 0 THEN detectedLang ELSE "english"

\* what a caller may pass as prior preference (detect declares one parameter;
\* a second argument is dropped by the call)
Preferences == {Missing, "arabic", "french", "english"}

\* detect(text, priorPreference) in part_002
Detect(text, priorPreference) ==
    /\ variant = "part_002"
    /\ classified = NoDetection
    /\ classified' = [pc |-> "returned", text |-> text,
                      priorPreference |-> priorPreference,
                      scores |-> scoresOf(text), result |-> detect(text)]
    /\ UNCHANGED <<variant, now, vars002, varsStore, varsHttp, varsSend, varsLog>>

\* the end of detect, from the scores on
DetectScored(scores, priorPreference) ==
    /\ classified = NoDetection
    /\ classified' = [pc |-> "returned", text |-> <<"scored">>,
                      priorPreference |-> priorPreference,
                      scores |-> scores, result |-> detectAmong(languageKeys, scores)]
    /\ UNCHANGED <<variant, now, vars002, varsStore, varsHttp, varsSend, varsLog>>

InitDetect ==
    /\ now = 0
    /\ variant \in {"part_000", "part_002"}
    /\ userProfiles = EmptyMap
    /\ conversationMemory = EmptyMap
    /\ heap = [a \in ArrIds |-> <<>>]
    /\ inv = <<>>
    /\ conversations = EmptyMap
    /\ rateLimiter = EmptyMap
    /\ appended = [s \in Senders |-> 0]
    /\ requests = 0
    /\ IdleHttp
    /\ IdleSend
    /\ IdleLog

\* one call per behaviour
NextDetect ==
    \/ \E text \in Texts \cup {TxtFrench, TxtArabic, TxtTie},
          priorPreference \in Preferences : Detect(text, priorPreference)
    \/ /\ classified = NoDetection
       /\ \E scores \in ScoreVectors, priorPreference \in Preferences :
              DetectScored(scores, priorPreference)

SpecDetect == InitDetect /\ [][NextDetect]_vars

\* part_001 / part_003: the per-sender rate limit; sender 1 has sent nothing
\* yet, or all but one of the messages the limit admits, all at time 0
Admitted(n) ==
    [k \in 1 .. n |-> [fn |-> "isRateLimited", userId |-> 1, at |-> 0, limited |-> FALSE]]

InitLimit ==
    /\ now = 0
    /\ variant \in StoreVariants
    /\ \E n \in {0, RATE_LIMIT_MAX_REQUESTS - 1} :
          /\ rateLimiter = IF n = 0 THEN EmptyMap ELSE [u \in {1} |-> [k \in 1 .. n |-> 0]]
          /\ activity = Admitted(n)
    /\ timers = {}
    /\ conversations = EmptyMap
    /\ appended = [s \in Senders |-> 0]
    /\ requests = 0
    /\ userProfiles = EmptyMap
    /\ conversationMemory = EmptyMap
    /\ heap = [a \in ArrIds |-> <<>>]
    /\ inv = <<>>
    /\ IdleHttp
    /\ IdleSend

NextLimit ==
    \/ \E u \in Senders : isRateLimited(u)
    \/ \E u \in Senders : QuotaError(u)
    \/ ResetTimerFired
    \/ Cleanup
    \/ Elapse

SpecLimit == InitLimit /\ [][NextLimit]_vars

\* part_001 / part_003 right after the server started: nothing is stored
InitFresh == InitLimit /\ activity = <<>>

\* the first few turns of each conversation
NextFresh ==
    \/ \E u \in Senders : getConversationContext(u)
    \/ \E u \in Senders : appended[u] < MaxAppends
                          /\ addToConversation(u, roleOf(appended[u] + 1))
    \/ \E u \in Senders : isRateLimited(u)
    \/ Cleanup
    \/ Tick

SpecFresh == InitFresh /\ [][NextFresh]_vars

\* part_001 / part_003: messages that carry attachments and no text; sender
\* 1 is new, or has been answered in some language and is one message away
\* from the rate limit
InitAttach ==
    /\ now = 0
    /\ variant \in StoreVariants
    /\ \E n \in {0, RATE_LIMIT_MAX_REQUESTS - 1} :
       \E language \in {"arabic", "french", "english"} :
          /\ rateLimiter = IF n = 0 THEN EmptyMap ELSE [u \in {1} |-> [k \in 1 .. n |-> 0]]
          /\ activity = Admitted(n)
          /\ conversations =
                 IF n = 0 THEN EmptyMap
                 ELSE [u \in {1} |->
                          <<[role |-> "user", message |-> 1, timestamp |-> 0,
                             language |-> language],
                            [role |-> "assistant", message |-> 2, timestamp |-> 0,
                             language |-> language]>>]
          /\ appended = [s \in Senders |-> IF n # 0 /\ s = 1 THEN 2 ELSE 0]
          /\ (n = 0 => language = "english")
    /\ timers = {}
    /\ requests = 0
    /\ userProfiles = EmptyMap
    /\ conversationMemory = EmptyMap
    /\ heap = [a \in ArrIds |-> <<>>]
    /\ inv = <<>>
    /\ IdleHttp
    /\ IdleSend

NextAttach ==
    \/ \E senderId \in Senders, type \in AttachmentTypes :
           handleMessage(senderId, <<type>>)
    \/ \E senderId \in Senders, first \in {"audio", "video"}, type \in AttachmentTypes :
           handleMessage(senderId, <<first, type>>)
    \/ \E i \in 1 .. Len(inv) : TypingIndicatorOn(i)
    \/ \E i \in 1 .. Len(inv), ok \in BOOLEAN : ImageAnalysed(i, ok)
    \/ \E i \in 1 .. Len(inv) : TextMessageSent(i)
    \/ \E i \in 1 .. Len(inv) : TypingIndicatorOff(i)

SpecAttach == InitAttach /\ [][NextAttach]_vars

----------------------------------------------------------------------------
(* server.js: LanguageDetector, isAskingAboutCreator, callGroqAPI and       *)
(* processMessage (lines 76-127, 284-317, 359-406, 505-618)                 *)

TxtWhy == <<"why", "not">>
TxtShow == <<"show", "me">>
TxtHowCapital == <<"How", "so">>
TxtLongWord == <<"long_word">>

\* the characters of a word token; long_word stands for 101 letters that
\* spell no keyword
charsOf(tok) ==
    CASE tok = "long_word" -> 101
      [] tok \in {"hello", "merci"} -> 5
      [] tok = "beaucoup" -> 8
      [] tok \in {"made", "show"} -> 4
      [] tok \in {"so", "me"} -> 2
      [] tok = "ar_salam" -> 6
      [] OTHER -> 3

\* messageText.length: the words and one space between two of them
RECURSIVE messageLength(_)
messageLength(text) ==
    IF text = <<>> THEN 0
    ELSE charsOf(Head(text)) + (IF Len(text) > 1 THEN 1 ELSE 0)
         + messageLength(Tail(text))

\* the strings of lines 574-586 that are character substrings of a word
\* token ('how' is one of 'show'; includes is case sensitive)
questionWordsIn(tok) ==
    CASE tok = "show" -> {"how"}
      [] tok \in {"?", "explain", "how", "why", "what", "comment", "pourquoi",
                  "ar_kif", "ar_madha", "ar_limadha", "ar_kifash", "ar_alash"} -> {tok}
      [] OTHER -> {}

\* server.js lines 574-586
useAdvancedModel(messageText) ==
    \/ messageLength(messageText) > 100
    \/ \E k \in 1 .. Len(messageText) : questionWordsIn(messageText[k]) # {}

\* server.js lines 88-96: the words of the regex alternations
regexWords(lang) ==
    CASE lang = "french" ->
           {"bonjour", "salut", "merci", "comment", "ca", "va", "oui", "non", "je",
            "tu", "il", "elle", "nous", "vous", "ils", "elles", "avec", "dans",
            "pour", "sur", "par", "de", "du", "des", "le", "la", "les", "un",
            "une", "et", "ou", "mais", "donc", "car", "si", "que", "qui", "quoi",
            "quand", "pourquoi", "combien", "tres", "bien", "mal", "bon", "bonne",
            "grand", "petit", "nouveau", "vieux", "beau", "belle"}
      [] lang = "english" ->
           {"hello", "hi", "thank", "thanks", "yes", "no", "how", "what", "where",
            "when", "why", "with", "from", "about", "would", "could", "should",
            "will", "can", "may", "might", "must", "have", "has", "had", "do",
            "does", "did", "is", "are", "was", "were", "been", "being", "the",
            "and", "or", "but", "if", "then", "that", "this", "these", "those",
            "good", "bad", "great", "awesome", "nice", "cool"}
      [] OTHER -> {}

\* server.js lines 80, 85, 90, 95
keywordsServer(lang) ==
    CASE lang = "arabic" ->
           {"ar_salam", "ar_marhaba", "ar_shukran", "ar_naam", "ar_la", "ar_kif",
            "ar_madha", "ar_ayna", "ar_mata", "ar_limadha", "ar_ahlan", "ar_wasahlan"}
      [] lang = "darija" ->
           {"ar_kifash", "ar_wash", "ar_bzaf", "ar_mezian", "ar_shnou", "ar_fin",
            "ar_daba", "ar_rak", "ar_rah", "ar_kirak"}
      [] lang = "french" ->
           {"bonjour", "salut", "merci", "comment", "oui", "non", "avec", "dans",
            "pour", "tres", "bien"}
      [] lang = "english" ->
           {"hello", "hi", "thank", "thanks", "how", "what", "where", "when", "why",
            "good", "great", "awesome"}

\* the keywords that are character substrings of a lower-case word token
keywordsInServer(tok) ==
    CASE tok = "show" -> {"how"}
      [] tok = "ar_salam" -> {"ar_salam", "ar_la"}
      [] OTHER -> {tok}

\* server.js lines 103-117; the \b of the darija regex sits between two
\* Arabic letters or next to white space, where JavaScript sees no word
\* boundary, so that regex matches no text made of words and spaces
scoresServer(text) ==
    LET lowerText == toLowerCase(text)
        regex(lang) ==
            IF lang = "arabic" THEN arabicScript(text)
            ELSE \E k \in 1 .. Len(lowerText) : lowerText[k] \in regexWords(lang)
        matched(lang) ==
            {keyword \in keywordsServer(lang) :
                \E k \in 1 .. Len(lowerText) : keyword \in keywordsInServer(lowerText[k])}
    IN  [lang \in {"arabic", "darija", "french", "english"} |->
            (IF regex(lang) THEN weightOf(lang) * 2 ELSE 0)
            + Cardinality(matched(lang)) * weightOf(lang)]

\* LanguageDetector.detect of server.js (lines 100-126)
detectServer(text) == detectAmong(LanguageKeys000, scoresServer(text))

\* server.js lines 285-314; white space between the words of a pattern
creatorPatternsServer ==
    {<<"who", verb, "you">> :
        verb \in {"created", "made", "built", "developed", "designed", "programmed"}}
    \cup {<<"your", noun>> :
        noun \in {"creator", "maker", "developer", "designer", "programmer", "author"}}
    \cup {<<"who", "is", "your", noun>> :
        noun \in {"dad", "father", "boss", "owner", "parent"}}
    \cup {<<"who", "your", noun>> :
        noun \in {"dad", "father", "boss", "owner", "parent"}}
    \cup {<<"who", "are", "you">>, <<"tell", "me", "about", "yourself">>,
          <<"tell", "me", "about", "your", "creator">>,
          <<"ar_man", "ar_sanaak">>, <<"ar_man", "ar_khalaqak">>,
          <<"ar_man", "ar_amalak">>, <<"ar_min", "ar_sanaak">>,
          <<"ar_min", "ar_amalak">>, <<"ar_munshiak">>, <<"ar_saniak">>,
          <<"ar_mutawirak">>, <<"ar_man", "ar_anta">>,
          <<"qui", "t'a", "cree">>, <<"qui", "t'a", "fait">>,
          <<"ton", "createur">>, <<"ton", "developpeur">>, <<"qui", "es", "tu">>,
          <<"parle", "moi", "de", "toi">>,
          <<"ar_shkoun", "ar_sanaak">>, <<"ar_shkoun", "ar_amalak">>,
          <<"ar_shkoun", "ar_nta">>, <<"ar_wash", "ar_rak">>}

isAskingAboutCreatorServer(text) ==
    \E pattern \in creatorPatternsServer : includes(toLowerCase(text), pattern)

\* responses[language] || responses.english, for tables with a darija entry
replyServer(kind, language) ==
    [kind |-> kind,
     language |-> IF language \in {"english", "arabic", "french", "darija"}
                  THEN language ELSE "english",
     arg |-> ""]

\* server.js lines 395-402: fallbackResponses[language] || fallbackResponses.english
fallbackResponse(language) ==
    CASE language = "arabic" -> "apology_arabic"
      [] language = "french" -> "apology_french"
      [] language = "darija" -> "apology_darija"
      [] OTHER -> "apology_english"

\* server.js lines 360-366
modelOf(advanced) ==
    IF advanced THEN "llama-3.1-70b-versatile" ELSE "llama-3.1-8b-instant"

\* processMessage(senderId, messageText, attachments) is called and runs up
\* to its first await (line 508)
processMessageServer(senderId, messageText, attachments) ==
    /\ variant = "server.js"
    /\ Len(inv) < MaxEvents
    /\ inv' = Append(inv,
           [pc |-> "server_typing_on", senderId |-> senderId,
            messageText |-> messageText, attachments |-> attachments,
            detectedLanguage |-> "", pending |-> NoReply, conversation |-> NoArr,
            advanced |-> FALSE, calls |-> <<Call("typing_on", NoReply)>>])
    /\ UNCHANGED <<variant, now, userProfiles, conversationMemory, heap, varsStore,
                   varsHttp, varsSend, varsPure, varsLog>>

\* lines 524-550, from messageCount++ to the next await; analyzeImage
\* (lines 409-418) awaits nothing
RouteServer(h, userProfile) ==
    LET counted == [userProfile EXCEPT !.messageCount = @ + 1,
                                       !.lastMessageTime = now]
        senderId == h.senderId
        conversation == IF senderId \in DOMAIN conversationMemory
                        THEN conversationMemory[senderId]
                        ELSE NewArr(conversationMemory, inv)
        detectedLanguage == detectServer(h.messageText)
        h1 == [h EXCEPT !.detectedLanguage = detectedLanguage,
                        !.conversation = conversation]
        send(reply) == [h1 EXCEPT !.pc = "send", !.pending = reply,
                                  !.calls = Append(@, Call("send", reply))]
    IN  [profile |-> counted,
         handler |->
            IF isAskingAboutCreatorServer(h.messageText)
            THEN send(replyServer("creator", detectedLanguage))
            ELSE IF \E k \in 1 .. Len(h.attachments) : h.attachments[k] = "image"
            THEN send(replyServer("image", detectedLanguage))
            ELSE [h1 EXCEPT !.pc = "server_think"]]

\* line 508 returns (sendTypingIndicator swallows failures); lines 511-513
TypingOnDoneServer(i) ==
    /\ inv[i].pc = "server_typing_on"
    /\ IF inv[i].senderId \in DOMAIN userProfiles
       THEN LET r == RouteServer(inv[i], userProfiles[inv[i].senderId])
            IN  /\ inv' = [inv EXCEPT ![i] = r.handler]
                /\ userProfiles' = MapSet(userProfiles, inv[i].senderId, r.profile)
       ELSE /\ inv' = [inv EXCEPT ![i].pc = "server_fetch_profile",
                                  ![i].calls = Append(@, Call("fetch_profile", NoReply))]
            /\ UNCHANGED userProfiles
    /\ heap' = Collect(heap, conversationMemory, inv')
    /\ UNCHANGED <<variant, now, conversationMemory, varsStore, varsHttp, varsSend,
                   varsPure, varsLog>>

\* line 513 returns (getUserProfile returns null on failure); lines 514-522
ProfileFetchedServer(i, firstName) ==
    /\ inv[i].pc = "server_fetch_profile"
    /\ LET created == [firstName |-> firstName, messageCount |-> 0,
                       lastMessageTime |-> now]
           r == RouteServer(inv[i], created)
       IN  /\ inv' = [inv EXCEPT ![i] = r.handler]
           /\ userProfiles' = MapSet(userProfiles, inv[i].senderId, r.profile)
    /\ heap' = Collect(heap, conversationMemory, inv')
    /\ UNCHANGED <<variant, now, conversationMemory, varsStore, varsHttp, varsSend,
                   varsPure, varsLog>>

GroqRequestServer(language, advanced) ==
    Call("groq", [kind |-> "request", language |-> language, arg |-> modelOf(advanced)])

\* the delay of line 554 is over; lines 557-589, then callGroqAPI up to its
\* request (line 369)
ThinkDoneServer(i) ==
    /\ inv[i].pc = "server_think"
    /\ LET got == inv[i].conversation
           firstName == userProfiles[inv[i].senderId].firstName
           pushed == Append(heap[got],
                            [role |-> "user",
                             content |-> <<firstName, ":">> \o inv[i].messageText])
           sliced == Len(pushed) > ConversationKeep
           conversation == IF sliced THEN NewArr(conversationMemory, inv) ELSE got
           heap1 == [heap EXCEPT ![got] = pushed]
           heap2 == IF sliced
                    THEN [heap1 EXCEPT ![conversation] = sliceLast(pushed, ConversationKeep)]
                    ELSE heap1
           advanced == useAdvancedModel(inv[i].messageText)
       IN  /\ inv' = [inv EXCEPT ![i].pc = "server_groq",
                                 ![i].conversation = conversation,
                                 ![i].advanced = advanced,
                                 ![i].calls = Append(@,
                                     GroqRequestServer(inv[i].detectedLanguage, advanced))]
           /\ heap' = Collect(heap2, conversationMemory, inv')
    /\ UNCHANGED <<variant, now, userProfiles, conversationMemory, varsStore,
                   varsHttp, varsSend, varsPure, varsLog>>

\* the request of line 369 answers or fails (lines 385-404); lines 592-596
GroqDoneServer(i, ok, completion) ==
    /\ inv[i].pc = "server_groq"
    /\ IF ~ok /\ inv[i].advanced
       THEN /\ inv' = [inv EXCEPT ![i].advanced = FALSE,
                                  ![i].calls = Append(@,
                                      GroqRequestServer(inv[i].detectedLanguage, FALSE))]
            /\ UNCHANGED <<conversationMemory, heap>>
       ELSE StoreExchange(i, IF ok THEN completion
                             ELSE fallbackResponse(inv[i].detectedLanguage))
    /\ UNCHANGED <<variant, now, userProfiles, varsStore, varsHttp, varsSend,
                   varsPure, varsLog>>

\* line 604 returns; lines 606-615
CatchTypingOffDoneServer(i) ==
    /\ variant = "server.js"
    /\ inv[i].pc = "catch_typing_off"
    /\ inv' = [inv EXCEPT ![i].pc = "catch_send",
                          ![i].calls = Append(@, Call("send",
                              replyServer("error", detectServer(inv[i].messageText))))]
    /\ UNCHANGED <<variant, now, userProfiles, conversationMemory, heap, varsStore,
                   varsHttp, varsSend, varsPure, varsLog>>

\* the messages server.js is given: the first event of a behaviour is a
\* plain text or comes with attachments, a later one is a greeting
InboundServer ==
    IF inv = <<>>
    THEN ({TxtHello, TxtCreatorEn, TxtWhy, TxtShow, TxtHowCapital, TxtLongWord,
           TxtFrench, TxtArabic} \X {NoAttachments})
         \cup {<<TxtEmpty, <<"image">> >>, <<TxtCreatorEn, <<"image">> >>,
               <<TxtHello, <<"file", "image">> >>, <<TxtEmpty, <<"audio">> >>}
    ELSE {<<TxtHello, NoAttachments>>}

\* server.js after n greetings of a sender were answered one after the other
RECURSIVE ExchangesServer(_)
ExchangesServer(n) ==
    IF n = 0 THEN <<>>
    ELSE << [role |-> "user", content |-> <<"Ann", ":">> \o TxtHello],
            [role |-> "assistant", content |-> "completion"] >>
         \o ExchangesServer(n - 1)

InitServer ==
    /\ now = 0
    /\ variant = "server.js"
    /\ \E returning \in {{}, {1}} :
        /\ userProfiles = [s \in returning |->
                               [firstName |-> "Ann", messageCount |-> 10,
                                lastMessageTime |-> 0]]
        /\ conversationMemory = [s \in returning |-> s]
        /\ heap = [a \in ArrIds |-> IF a \in returning
                                    THEN ExchangesServer(ConversationKeep \div 2)
                                    ELSE <<>>]
    /\ inv = <<>>
    /\ conversations = EmptyMap
    /\ rateLimiter = EmptyMap
    /\ appended = [s \in Senders |-> 0]
    /\ requests = 0
    /\ IdleHttp
    /\ IdleSend
    /\ IdleLog

NextServer ==
    \/ \E senderId \in Senders, e \in InboundServer :
           processMessageServer(senderId, e[1], e[2])
    \/ \E i \in 1 .. Len(inv) : TypingOnDoneServer(i)
    \/ \E i \in 1 .. Len(inv), firstName \in FirstNames : ProfileFetchedServer(i, firstName)
    \/ \E i \in 1 .. Len(inv) : ThinkDoneServer(i)
    \/ \E i \in 1 .. Len(inv), ok \in BOOLEAN, c \in Completions : GroqDoneServer(i, ok, c)
    \/ \E i \in 1 .. Len(inv) : TypingOffDone(i)
    \/ \E i \in 1 .. Len(inv), ok \in BOOLEAN : SendDone(i, ok)
    \/ \E i \in 1 .. Len(inv) : CatchTypingOffDoneServer(i)
    \/ \E i \in 1 .. Len(inv), ok \in BOOLEAN : CatchSendDone(i, ok)

SpecServer == InitServer /\ [][NextServer]_vars

----------------------------------------------------------------------------
(* server.js: makeHuggingFaceRequest (lines 876-945).  The message of an   *)
(* error is the set of the strings tested at lines 926-932 that it holds.  *)

\* server.js line 877
maxRetries == 3

RequestTypes == {"textGeneration", "translation", "imageToText", "summarization"}

ErrorMessages ==
    {{}, {"429"}, {"rate limit"}, {"503"}, {"loading"}, {"404"}, {"not found"},
     {"429", "404"}, {"loading", "not found"}}

\* new Error(`Unknown request type: ${requestType}`) (line 915)
UnknownRequestType == {}

\* lines 926-939: the delay awaited after a failed attempt; 0 stands for the
\* break of line 934
delayAfter(message, attempt) ==
    IF "429" \in message \/ "rate limit" \in message THEN 2000 * attempt
    ELSE IF "503" \in message \/ "loading" \in message THEN 5000 * attempt
    ELSE IF "404" \in message \/ "not found" \in message THEN 0
    ELSE 1000 * attempt

\* lines 921-939: the catch block of one attempt
failed(d, message) ==
    LET failures == Append(d.failures, message)
    IN  IF delayAfter(message, d.attempt) = 0
        THEN [d EXCEPT !.pc = "threw", !.failures = failures, !.thrown = message]
        ELSE [d EXCEPT !.pc = "wait", !.failures = failures,
                       !.waits = Append(@, delayAfter(message, d.attempt))]

\* lines 880-916: one iteration of the loop up to its await; an unknown
\* request type throws inside the try block
attempted(d) ==
    IF d.requestType \in {"textGeneration", "translation", "imageToText"}
    THEN [d EXCEPT !.pc = "request", !.requests = @ + 1]
    ELSE failed(d, UnknownRequestType)

makeHuggingFaceRequest(requestType) ==
    /\ variant = "server.js"
    /\ delivery.pc \in {"idle", "returned", "threw"}
    /\ delivery.call < MaxCalls
    /\ delivery' = attempted([pc |-> "request", call |-> delivery.call + 1,
                              requestType |-> requestType, attempt |-> 1,
                              requests |-> 0, failures |-> <<>>, waits |-> <<>>,
                              thrown |-> {}])
    /\ UNCHANGED <<variant, now, vars002, varsStore, varsHttp, sending, varsPure, varsLog>>

\* the request of lines 898-912 is answered (lines 918-919), or fails
HuggingFaceAnswered(ok, message) ==
    /\ variant = "server.js"
    /\ delivery.pc = "request"
    /\ delivery' = IF ok THEN [delivery EXCEPT !.pc = "returned"]
                   ELSE failed(delivery, message)
    /\ UNCHANGED <<variant, now, vars002, varsStore, varsHttp, sending, varsPure, varsLog>>

\* the timer of line 928, 931 or 937 fires: the next iteration, or line 942
HuggingFaceTimerFired ==
    /\ variant = "server.js"
    /\ delivery.pc = "wait"
    /\ delivery' =
           IF delivery.attempt + 1 > maxRetries
           THEN [delivery EXCEPT !.pc = "threw",
                                 !.thrown = delivery.failures[Len(delivery.failures)]]
           ELSE attempted([delivery EXCEPT !.attempt = @ + 1])
    /\ UNCHANGED <<variant, now, vars002, varsStore, varsHttp, sending, varsPure, varsLog>>

NextHuggingFace ==
    \/ \E requestType \in RequestTypes : makeHuggingFaceRequest(requestType)
    \/ \E ok \in BOOLEAN, message \in ErrorMessages : HuggingFaceAnswered(ok, message)
    \/ HuggingFaceTimerFired

SpecHuggingFace == InitServer /\ [][NextHuggingFace]_vars

----------------------------------------------------------------------------
\* every variant
InitAll == Init002 \/ InitStore

NextAll == Next002 \/ NextStore

SpecAll == InitAll /\ [][NextAll]_vars

----------------------------------------------------------------------------
(* Observations used by the properties *)

Invocations == 1 .. Len(inv)

\* the replies an invocation has handed to sendMessage, in order
RECURSIVE sendsOf(_)
sendsOf(calls) ==
    IF calls = <<>> THEN <<>>
    ELSE IF Head(calls).api = "send"
         THEN <<Head(calls).reply>> \o sendsOf(Tail(calls))
         ELSE sendsOf(Tail(calls))

\* the invocations for senderId whose first reply is the welcome message
Welcomed(senderId) ==
    {i \in Invocations : /\ inv[i].senderId = senderId
                         /\ sendsOf(inv[i].calls) # <<>>
                         /\ sendsOf(inv[i].calls)[1].kind = "welcome"}

\* invocation i is past lines 491-554 (it has decided what to answer)
Routed(h) == h.pc \notin {"mark_seen", "typing_on", "fetch_profile"}

\* the kind of answer invocation h decided on at lines 498-554
Decision(h) ==
    IF h.pc \in {"think", "groq_primary", "groq_fallback"} THEN "ai"
    ELSE IF sendsOf(h.calls) # <<>> THEN sendsOf(h.calls)[1].kind
    ELSE h.pending.kind

\* invocation i executes lines 491-554 in this step
Routes(i) ==
    /\ i \in Invocations
    /\ ~Routed(inv[i])
    /\ Routed(inv'[i])

NonEmptyText(h) == h.attachments = <<>> /\ trim(h.messageText) # <<>>

----------------------------------------------------------------------------
(* C1: for every sender, the welcome reply is sent at most once, whatever *)
(* the interleaving of the processMessage invocations for that sender.    *)
C1_WelcomeAtMostOnce ==
    \A s \in Senders : Cardinality(Welcomed(s)) <= 1

Unwelcomed(senderId) ==
    senderId \notin DOMAIN userProfiles \/ ~userProfiles[senderId].isWelcomed

(* C2: in a sequential history, a non-empty text message processed while   *)
(* the sender's welcomed flag is false is answered with the welcome reply *)
(* and sets the flag; a message processed while the flag is true is not   *)
(* answered with the welcome reply.                                       *)
C2_FirstTextIsWelcomed ==
    [][\A i \in Invocations :
          (Routes(i) /\ NonEmptyText(inv[i])) =>
              IF Unwelcomed(inv[i].senderId)
              THEN /\ Decision(inv'[i]) = "welcome"
                   /\ userProfiles'[inv[i].senderId].isWelcomed
              ELSE Decision(inv'[i]) # "welcome"]_vars

----------------------------------------------------------------------------
\* the turns stored for senderId (<<>> when the map has no entry)
Stored(senderId) ==
    IF senderId \in DOMAIN conversationMemory
    THEN heap[conversationMemory[senderId]] ELSE <<>>

(* C3: in every reachable state, for every sender, the conversation stored *)
(* in conversationMemory has at most 20 turns.                             *)
C3_AtMostTwentyTurns ==
    \A s \in DOMAIN conversationMemory : Len(Stored(s)) <= 20

----------------------------------------------------------------------------
Min(a, b) == IF a < b THEN a ELSE b

(* C4: addToConversation keeps at most MAX_CONVERSATION_LENGTH turns per  *)
(* user; once more than the cap were appended, the stored conversation is *)
(* exactly the cap-many most recently appended turns, in append order.    *)
C4_CappedMostRecent ==
    variant \in StoreVariants =>
        \A u \in DOMAIN conversations :
            LET c == conversations[u]
            IN  /\ Len(c) <= MAX_CONVERSATION_LENGTH
                /\ Len(c) = Min(appended[u], MAX_CONVERSATION_LENGTH)
                /\ \A k \in 1 .. Len(c) : c[k].message = appended[u] - Len(c) + k

\* more turns than the cap were appended for some user, in each variant's cap
C4_Witness ==
    \E u \in DOMAIN conversations :
        /\ appended[u] > MAX_CONVERSATION_LENGTH
        /\ Len(conversations[u]) = MAX_CONVERSATION_LENGTH
        /\ conversations[u][1].message = appended[u] - MAX_CONVERSATION_LENGTH + 1

----------------------------------------------------------------------------
(* C5: after a Janitor run, no sender whose lastMessageTime precedes      *)
(* now - retention window has a Profile or a Conversation left.           *)
C5_JanitorEvictsBoth ==
    [][Janitor =>
          \A s \in staleProfiles(userProfiles, now) :
              /\ s \notin DOMAIN userProfiles'
              /\ s \notin DOMAIN conversationMemory']_vars

----------------------------------------------------------------------------
\* senderId's conversation entry is written in this step
ConversationWritten(senderId) ==
    /\ senderId \in DOMAIN conversationMemory'
    /\ \/ senderId \notin DOMAIN conversationMemory
       \/ conversationMemory'[senderId] # conversationMemory[senderId]
       \/ heap'[conversationMemory'[senderId]] # heap[conversationMemory[senderId]]

(* C6: every sender with an entry in conversationMemory has an entry in   *)
(* userProfiles, and the Profile is stored before the Conversation is     *)
(* written.                                                               *)
C6_ProfileBeforeConversation ==
    /\ [](DOMAIN conversationMemory \subseteq DOMAIN userProfiles)
    /\ [][\A s \in Senders :
             ConversationWritten(s) => s \in DOMAIN userProfiles]_vars

\* a sender that was unknown at the start has a conversation
C6_Witness ==
    \E i \in Invocations :
        /\ inv[i].isFirstTime
        /\ inv[i].senderId \in DOMAIN conversationMemory
        /\ Len(Stored(inv[i].senderId)) = 2

----------------------------------------------------------------------------
(* C7: the cleanup job is idempotent: in part_002 and in part_001/part_003 *)
(* a second run at the same clock value, with nothing in between, would    *)
(* leave the stores exactly as the first run left them.                    *)
C7_JanitorIdempotent ==
    [][/\ Janitor =>
            cleanedMemory(userProfiles', conversationMemory', now') = conversationMemory'
       /\ Cleanup =>
            /\ cleanedConversations(conversations', now') = conversations'
            /\ rateLimiter' = EmptyMap]_vars

\* a run has evicted the conversation of a returning sender, and another
\* stale sender is in the same store
C7_Witness ==
    /\ variant = "part_002"
    /\ Cardinality(staleProfiles(userProfiles, now)) = 2
    /\ \A s \in staleProfiles(userProfiles, now) :
           userProfiles[s].messageCount >= 11 /\ s \notin DOMAIN conversationMemory

----------------------------------------------------------------------------
\* invocation i took the AI path and is past the write of line 572
Exchanged(h) ==
    /\ \E k \in 1 .. Len(h.calls) : h.calls[k].api = "groq"
    /\ h.pc \notin {"think", "groq_primary", "groq_fallback"}

\* invocation i is the only one made for its sender
OnlyFor(i) == \A j \in Invocations \ {i} : inv[j].senderId # inv[i].senderId

\* what a handler writes when it found `before` at line 557 and got aiResponse
HandlerWrote(before, messageText, aiResponse) ==
    LET pushed == Append(before, [role |-> "user", content |-> messageText])
        kept == IF Len(pushed) > 20
                THEN SubSeq(pushed, Len(pushed) - 19, Len(pushed)) ELSE pushed
    IN  Append(kept, [role |-> "assistant", content |-> aiResponse])

\* the completions callGroqAPI can return
AiResponses == Completions \cup {"apology_arabic", "apology_english"}

\* senderId's Profile and Conversation are not touched in this step, except
\* that the cleanup job may evict the Conversation of a stale sender
Untouched(senderId) ==
    /\ (senderId \in DOMAIN userProfiles') = (senderId \in DOMAIN userProfiles)
    /\ senderId \in DOMAIN userProfiles =>
           userProfiles'[senderId] = userProfiles[senderId]
    /\ \/ /\ (senderId \in DOMAIN conversationMemory')
                 = (senderId \in DOMAIN conversationMemory)
          /\ Stored(senderId)' = Stored(senderId)
       \/ /\ senderId \in staleProfiles(userProfiles, now)
          /\ senderId \notin DOMAIN conversationMemory'

\* a handler of senderId starts or moves in this step
HandlerMoves(senderId) ==
    \/ Len(inv') > Len(inv) /\ inv'[Len(inv')].senderId = senderId
    \/ \E i \in Invocations : inv[i].senderId = senderId /\ inv'[i] # inv[i]

(* C8: when cleanup runs interleave with the one processMessage of a       *)
(* sender, then after the handler's write the sender's entry in            *)
(* conversationMemory is either absent or exactly the sequence the handler *)
(* wrote, and no step changes the Profile or Conversation of a sender      *)
(* other than the one whose handler moves.                                 *)
C8_JanitorDoesNotCorrupt ==
    /\ [](\A i \in Invocations :
            (Exchanged(inv[i]) /\ OnlyFor(i)) =>
                \/ inv[i].senderId \notin DOMAIN conversationMemory
                \/ \E before \in (IF inv[i].isFirstTime THEN {<<>>}
                                  ELSE {<<>>, Exchanges(ConversationKeep \div 2)}),
                      aiResponse \in AiResponses :
                       Stored(inv[i].senderId)
                           = HandlerWrote(before, inv[i].messageText, aiResponse))
    /\ [][\A s \in Senders : ~HandlerMoves(s) => Untouched(s)]_vars

\* the cleanup job has evicted the sender's Conversation while the sender's
\* only handler waits for the completion (the Profile still carries the time
\* of the handler's line 492, and the clock is past it by the window)
C8_Witness ==
    \E i \in Invocations :
        /\ OnlyFor(i)
        /\ inv[i].pc \in {"groq_primary", "groq_fallback"}
        /\ inv[i].senderId \notin DOMAIN conversationMemory
        /\ userProfiles[inv[i].senderId].messageCount = 12
        /\ inv[i].senderId \in staleProfiles(userProfiles, now)

----------------------------------------------------------------------------
MatchesCreator(messageText) ==
    \E pattern \in creatorPatterns : includes(toLowerCase(messageText), pattern)

MatchesProfile(messageText) ==
    \E pattern \in profilePatterns : includes(toLowerCase(messageText), pattern)

\* the kind of reply the priority order gives
Priority(h, unwelcomed) ==
    IF Len(h.attachments) > 0 THEN "media"
    ELSE IF trim(h.messageText) = <<>> THEN "none"
    ELSE IF unwelcomed THEN "welcome"
    ELSE IF MatchesCreator(h.messageText) THEN "creator"
    ELSE IF MatchesProfile(h.messageText) THEN "profile"
    ELSE "ai"

(* C9: the reply kind is decided by the first rule that applies: media     *)
(* notice for any attachment, no reply for an empty text, welcome for an   *)
(* un-welcomed sender, creator reply, profile reply, else the AI path.     *)
C9_PriorityOrder ==
    [][\A i \in Invocations :
          Routes(i) =>
              Decision(inv'[i]) = Priority(inv[i], Unwelcomed(inv[i].senderId))]_vars

----------------------------------------------------------------------------
(* C10 as stated: a non-empty text without attachments that matches a     *)
(* creator pattern gets the creator reply in every state of the Profile.  *)
C10_CreatorReplyAlways ==
    [][\A i \in Invocations :
          (Routes(i) /\ NonEmptyText(inv[i]) /\ MatchesCreator(inv[i].messageText)) =>
              Decision(inv'[i]) = "creator"]_vars

(* C10 amended: a non-empty text without attachments that matches a       *)
(* creator pattern, from a sender whose welcomed flag is already set, gets *)
(* the creator reply, in the table entry of whatever language detect      *)
(* returns for the text.                                                  *)
C10_CreatorReplyWhenWelcomed ==
    [][\A i \in Invocations :
          (/\ Routes(i)
           /\ NonEmptyText(inv[i])
           /\ MatchesCreator(inv[i].messageText)
           /\ ~Unwelcomed(inv[i].senderId)) =>
              /\ Decision(inv'[i]) = "creator"
              /\ inv'[i].pending = getCreatorResponse(detect(inv[i].messageText))]_vars

\* a welcomed sender was sent the creator reply of a language other than
\* English for a text whose language detect does not take for English
C10_Witness ==
    \E i \in Invocations :
        /\ ~inv[i].isFirstTime
        /\ ~Unwelcomed(inv[i].senderId)
        /\ MatchesCreator(inv[i].messageText)
        /\ detect(inv[i].messageText) # "english"
        /\ sendsOf(inv[i].calls) # <<>>
        /\ sendsOf(inv[i].calls)[1] = getCreatorResponse(detect(inv[i].messageText))

----------------------------------------------------------------------------
\* an event with empty or whitespace-only text and no attachments
EmptyEvent(h) == h.attachments = <<>> /\ trim(h.messageText) = <<>>

(* C11: processing an event with empty or whitespace-only text and no     *)
(* attachments sends no message and leaves userProfiles and               *)
(* conversationMemory unchanged.                                          *)
C11_EmptyTextIsNoOp ==
    [][\A i \in Invocations :
          (Routes(i) /\ EmptyEvent(inv[i])) =>
              /\ inv'[i].pending = NoReply
              /\ userProfiles' = userProfiles
              /\ conversationMemory' = conversationMemory]_vars

----------------------------------------------------------------------------
\* the completion requests an invocation has made, in order
RECURSIVE groqRequests(_)
groqRequests(calls) ==
    IF calls = <<>> THEN <<>>
    ELSE IF Head(calls).api = "groq"
         THEN <<Head(calls).reply>> \o groqRequests(Tail(calls))
         ELSE groqRequests(Tail(calls))

(* C12: callGroqAPI never throws; it makes one request to the selected    *)
(* model, and only when that fails exactly one more, to the fallback      *)
(* model; it returns a completion, or the static apology after both       *)
(* requests failed; at most two requests are made per call.               *)
C12_OneFallbackThenApology ==
    \A i \in Invocations :
        LET h == inv[i]
            made == groqRequests(h.calls)
        IN  /\ Len(made) <= 2
            /\ Len(made) >= 1 => made[1].arg = selectedModel(h.groqLang)
            /\ Len(made) = 2 => made[2].arg = fallbackModel
            /\ h.pc = "groq_primary" => Len(made) = 1
            /\ h.pc = "groq_fallback" => Len(made) = 2
            /\ Exchanged(h) =>
                   /\ h.pending.kind = "ai"
                   /\ \/ h.pending.arg \in Completions
                      \/ h.pending.arg = apology(h.groqLang) /\ Len(made) = 2

\* both requests of a call have failed and the handler went on with the apology
C12_Witness ==
    \E i \in Invocations :
        /\ Exchanged(inv[i])
        /\ Len(groqRequests(inv[i].calls)) = 2
        /\ inv[i].pending.arg = apology(inv[i].groqLang)
        /\ inv[i].pc = "done"

----------------------------------------------------------------------------
\* the apology a language calls for
apologyIn(language) ==
    CASE language = "arabic" -> "apology_arabic"
      [] language = "french" -> "apology_french"
      [] OTHER -> "apology_english"

(* C13: when both completion requests fail, the apology returned by       *)
(* callGroqAPI is the one for the language LanguageDetector.detect gave   *)
(* the inbound message (arabic, french or english).                       *)
C13_ApologyInDetectedLanguage ==
    \A i \in Invocations :
        (Exchanged(inv[i]) /\ inv[i].pending.arg \notin Completions) =>
            inv[i].pending.arg = apologyIn(inv[i].detectedLanguage)

----------------------------------------------------------------------------
(* C14: processMessage never rejects: whatever external calls fail, the   *)
(* promise handed to the setImmediate callback resolves.                  *)
C14_NeverRejects ==
    \A i \in Invocations : inv[i].pc # "rejected"

----------------------------------------------------------------------------
(* C15: sendTextMessage makes at most 3 delivery attempts per call, makes *)
(* none after a successful one, waits 1000 ms times the number of the     *)
(* failed attempt before the next one, and after the third failure        *)
(* returns (without throwing) with the message undelivered.               *)
C15_BoundedRetries ==
    delivery.pc # "idle" =>
        /\ delivery.pc \in {"post", "wait", "returned"}
        /\ delivery.posts <= 3
        /\ delivery.attempts <= 3
        /\ delivery.delivered =>
               delivery.pc = "returned" /\ delivery.posts = delivery.attempts + 1
        /\ delivery.pc = "post" => delivery.posts = delivery.attempts + 1
        /\ delivery.pc = "wait" => delivery.posts = delivery.attempts
        /\ Len(delivery.waits) = IF delivery.attempts = 3 THEN 2 ELSE delivery.attempts
        /\ \A k \in 1 .. Len(delivery.waits) : delivery.waits[k] = 1000 * k
        /\ (delivery.pc = "returned" /\ ~delivery.delivered /\ delivery.tokenSet) =>
               delivery.attempts = 3 /\ delivery.posts = 3

\* three attempts failed, with waits of 1000 ms and 2000 ms between them, and
\* the call has returned
C15_Witness ==
    /\ delivery.pc = "returned"
    /\ delivery.tokenSet
    /\ ~delivery.delivered
    /\ delivery.posts = 3
    /\ delivery.waits = <<1000, 2000>>

----------------------------------------------------------------------------
\* the sendMessage call has taken the splitting branch of lines 401-410
Splitting == sending.pc # "idle" /\ sending.split

(* C16: for a text longer than 2000 characters sendMessage sends at most  *)
(* 3 messages, one after the other in chunk order, each of at most 1900   *)
(* characters, and no chunk send takes the splitting branch again.        *)
C16_ChunksBounded ==
    Splitting =>
        /\ sending.pc # "resplit"
        /\ Len(sending.posted) <= 3
        /\ Len(sending.posted) <= Len(sending.chunks)
        /\ \A k \in 1 .. Len(sending.posted) :
               /\ sending.posted[k] = trimmed(sending.messageText, sending.chunks[k])
               /\ size(sending.posted[k]) <= 1900
        /\ sending.pc \in {"post", "wait"} => Len(sending.posted) = sending.i + 1

\* three chunks of a text with more than three have been sent, the third of
\* them 1900 characters long
C16_Witness ==
    /\ Splitting
    /\ sending.pc = "returned"
    /\ Len(sending.chunks) > 3
    /\ Len(sending.posted) = 3
    /\ size(sending.posted[3]) = 1900

----------------------------------------------------------------------------
\* the characters from position a to position b that are not whitespace
Lost(text, a, b) == {p \in a .. b : charAt(text, p) \notin Whitespace}

(* C17: the chunks of a text longer than 2000 characters are consecutive  *)
(* segments of the text from its first character on, split at whitespace: *)
(* no character other than whitespace is left out before the first chunk  *)
(* or between two chunks.                                                 *)
C17_NothingLostBetweenChunks ==
    Splitting =>
        /\ Lost(sending.messageText, 1, sending.chunks[1].from - 1) = {}
        /\ \A k \in 1 .. (Len(sending.chunks) - 1) :
               Lost(sending.messageText, sending.chunks[k].to + 1,
                    sending.chunks[k + 1].from - 1) = {}

----------------------------------------------------------------------------
\* the handler is between its push of line 558 and its push of line 571
Holding(h) == h.pc \in {"groq_primary", "groq_fallback"}

\* no other handler of the same sender is between its two pushes
AloneBetweenPushes(i) ==
    \A j \in Invocations \ {i} :
        inv[j].senderId = inv[i].senderId => ~Holding(inv[j])

\* no two turns in a row have the same role
Alternating(conversation) ==
    \A k \in 1 .. Len(conversation) - 1 :
        conversation[k].role # conversation[k + 1].role

\* every user turn is followed by a reply
Answered(conversation) ==
    /\ Alternating(conversation)
    /\ conversation # <<>> => conversation[Len(conversation)].role = "assistant"

\* the conversation alternates and ends with the user turn of handler h
AwaitingReply(conversation, h) ==
    /\ Alternating(conversation)
    /\ conversation # <<>>
    /\ conversation[Len(conversation)]
           = [role |-> "user", content |-> h.messageText]

(* C18: when no other handler of the same sender is between its two pushes, *)
(* a handler that finds an alternating conversation appends its user turn   *)
(* at the end and later its own reply right behind it, and the stored       *)
(* conversation alternates again; handlers of the same sender that overlap  *)
(* between the pushes can leave two user turns in a row.                    *)
C18_SequentialAlternates ==
    [][\A i \in Invocations :
         LET s == inv[i].senderId
         IN  /\ ( /\ inv[i].pc = "think" /\ inv'[i].pc = "groq_primary"
                  /\ AloneBetweenPushes(i)
                  /\ Answered(Stored(s)) )
                    => /\ AwaitingReply(heap'[inv'[i].conversation], inv'[i])
                       /\ Len(heap'[inv'[i].conversation]) <= ConversationKeep
                       /\ Stored(s)' = IF s \in DOMAIN conversationMemory
                                       THEN Append(Stored(s),
                                                   [role |-> "user",
                                                    content |-> inv[i].messageText])
                                       ELSE <<>>
             /\ ( /\ Holding(inv[i]) /\ inv'[i].pc = "typing_off"
                  /\ AloneBetweenPushes(i)
                  /\ AwaitingReply(heap[inv[i].conversation], inv[i]) )
                    => /\ Answered(Stored(s)')
                       /\ \E aiResponse \in AiResponses :
                              Stored(s)' = Append(heap[inv[i].conversation],
                                                  [role |-> "assistant",
                                                   content |-> aiResponse])]_vars

\* every handler has returned and a sender's conversation holds two user
\* turns in a row
C18_Witness ==
    /\ Len(inv) = MaxEvents
    /\ \A i \in Invocations : ~Running(inv[i])
    /\ \E s \in DOMAIN conversationMemory :
           \E k \in 1 .. Len(Stored(s)) - 1 :
               /\ Stored(s)[k].role = "user"
               /\ Stored(s)[k + 1].role = "user"

----------------------------------------------------------------------------
\* the requests received so far, in order
Requests == 1 .. Len(res)

\* what the route handler of POST /webhook answers for body.object
acknowledged(object) ==
    IF object = "page" THEN Response(200, "EVENT_RECEIVED")
    ELSE Response(404, "Not Found")

(* C19: in part_002 every well-formed POST /webhook with object 'page' is  *)
(* answered 200 'EVENT_RECEIVED' and every other object 404; a callback    *)
(* handed to setImmediate belongs to a request with object 'page' and runs *)
(* only after that request was answered.                                   *)
C19_AlwaysAcknowledged ==
    /\ [](\A r \in Requests :
            (variant = "part_002" /\ res[r].method = "POST"
                                 /\ res[r].body \in WellFormed)
                => res[r].response = acknowledged(res[r].object))
    /\ [](\A k \in 1 .. Len(immediates) :
            /\ immediates[k].request \in Requests
            /\ res[immediates[k].request].object = "page")
    /\ [][RunImmediate => Head(immediates).request \in Requests]_vars

----------------------------------------------------------------------------
(* C20: in every variant GET /webhook answers 200 with the challenge when  *)
(* hub.mode is 'subscribe' and the token equals VERIFY_TOKEN, and 403 when *)
(* the token is wrong or missing or the mode is missing.                   *)
C20_ChallengeOrForbidden ==
    \A r \in Requests :
        res[r].method = "GET" =>
            /\ (res[r].token = VERIFY_TOKEN /\ res[r].mode = "subscribe")
                   => res[r].response = Response(200, res[r].challenge)
            /\ (res[r].token # VERIFY_TOKEN \/ res[r].mode = Missing)
                   => res[r].response.status = 403

----------------------------------------------------------------------------
(* C21: in part_002 every POST /webhook whose payload has object 'page' and *)
(* a missing or non-iterable entry or messaging list, or an event without   *)
(* sender, is answered 500 by the handler.                                  *)
C21_MalformedAnswered500 ==
    \A r \in Requests :
        (variant = "part_002" /\ res[r].method = "POST" /\ res[r].body \in Malformed)
            => res[r].response = Response(500, "Internal Server Error")

----------------------------------------------------------------------------
\* the places <<entry, event>> of the events of a well-formed payload that
\* carry a message or a postback and were not sent by the page itself
due(body) ==
    {<<j, k>> \in (1 .. Len(body.entry.items)) \X (1 .. MaxEvents) :
        /\ k <= Len(body.entry.items[j].messaging.items)
        /\ LET webhookEvent == body.entry.items[j].messaging.items[k]
           IN  /\ webhookEvent.sender # body.entry.items[j].id
               /\ Has(webhookEvent, "message") \/ Has(webhookEvent, "postback")}

(* C22: in every variant, a POST /webhook with a well-formed page payload  *)
(* hands each event that carries a message or a postback and whose sender  *)
(* is not the page to message processing exactly once, and hands over no   *)
(* other event.                                                            *)
C22_EachEventOnce ==
    \A r \in Requests :
        (res[r].method = "POST" /\ res[r].body \in WellFormed
                                /\ res[r].object = "page")
            => /\ {res[r].dispatched[n].at : n \in 1 .. Len(res[r].dispatched)}
                      = due(res[r].body)
               /\ Len(res[r].dispatched) = Cardinality(due(res[r].body))

----------------------------------------------------------------------------
\* the languages whose score is the largest of the vector
best(scores) ==
    {lang \in DOMAIN scores : \A other \in DOMAIN scores : scores[other] <= scores[lang]}

\* the place of a language in the patterns table
declared(lang) == CHOOSE k \in 1 .. Len(languageKeys) : languageKeys[k] = lang

(* C23: when two or more languages share the highest nonzero score, detect *)
(* returns the one of them that is declared first in the patterns table.   *)
C23_TieGoesToFirstDeclared ==
    classified.pc = "returned" =>
        LET top == best(classified.scores)
        IN  (Cardinality(top) >= 2 /\ \E lang \in top : classified.scores[lang] > 0)
                => /\ classified.result \in top
                   /\ \A lang \in top : declared(classified.result) <= declared(lang)

----------------------------------------------------------------------------
(* C24: detect returns a language whose score is maximal; when all scores  *)
(* are zero (as for empty or blank text) it returns the caller's prior     *)
(* preference if one is supplied and 'english' otherwise.                  *)
C24_MaximalOrPreference ==
    classified.pc = "returned" =>
        IF \A lang \in DOMAIN classified.scores : classified.scores[lang] = 0
        THEN classified.result = IF classified.priorPreference = Missing
                                 THEN "english" ELSE classified.priorPreference
        ELSE classified.result \in best(classified.scores)

----------------------------------------------------------------------------
\* the isRateLimited calls of userId that returned false during the
\* RATE_LIMIT_WINDOW that ends with call k
admittedInWindow(userId, k) ==
    {j \in 1 .. k :
        /\ activity[j].fn = "isRateLimited"
        /\ activity[j].userId = userId
        /\ ~activity[j].limited
        /\ activity[k].at - activity[j].at < RATE_LIMIT_WINDOW}

(* C25: in part_001 and part_003, whatever messages, cleanup runs and       *)
(* limiter resets happen, no sender has more than RATE_LIMIT_MAX_REQUESTS   *)
(* messages admitted by isRateLimited within 60 seconds, and a rejected     *)
(* message leaves the rate limiter as it was.                               *)
C25_WindowNeverExceeded ==
    /\ [](\A k \in 1 .. Len(activity) :
            Cardinality(admittedInWindow(activity[k].userId, k))
                <= RATE_LIMIT_MAX_REQUESTS)
    /\ [][(Len(activity') > Len(activity) /\ activity'[Len(activity')].limited)
             => rateLimiter' = rateLimiter]_vars

----------------------------------------------------------------------------
\* the times at which userId was active: its calls and its stored turns
activeAt(userId) ==
    {activity[k].at : k \in {j \in 1 .. Len(activity) : activity[j].userId = userId}}
    \cup (IF userId \in DOMAIN conversations
          THEN {conversations[userId][n].timestamp : n \in 1 .. Len(conversations[userId])}
          ELSE {})

(* C26: in part_003, after each run of the hourly cleanup job the           *)
(* conversations map has no entry, with or without turns, for a sender      *)
(* whose last activity is more than one hour old, and the rate limiter map  *)
(* is empty.                                                                *)
C26_InactiveSendersDeleted ==
    [][(Cleanup /\ variant = "part_003") =>
          /\ \A userId \in DOMAIN conversations' :
                 \E at \in activeAt(userId) : at >= now - CleanupAgeMs
          /\ rateLimiter' = EmptyMap]_vars


\* the replies a handler handed to sendTextMessage, in order
repliesOf(h) ==
    LET RECURSIVE pick(_)
        pick(calls) ==
            IF calls = <<>> THEN <<>>
            ELSE IF Head(calls).api = "send"
                 THEN <<Head(calls).reply>> \o pick(Tail(calls))
                 ELSE pick(Tail(calls))
    IN  pick(h.calls)

\* C27: in part_001 and in part_003 alike, a message that was admitted by
\* the rate limit and carries one audio attachment and no text is answered,
\* once its handler has returned, with the acknowledgement of the voice
\* message and not with the generic error message.
C27_AudioAcknowledged ==
    \A i \in 1 .. Len(inv) :
        (/\ variant \in StoreVariants
         /\ inv[i].pc = "returned"
         /\ inv[i].attachments = <<"audio">>
         /\ \A k \in 1 .. Len(repliesOf(inv[i])) :
                repliesOf(inv[i])[k] # getErrorMessage("english", "rateLimit"))
        => /\ \E k \in 1 .. Len(repliesOf(inv[i])) :
                  repliesOf(inv[i])[k].kind = "voice"
           /\ \A k \in 1 .. Len(repliesOf(inv[i])) :
                  repliesOf(inv[i])[k] # getErrorMessage("english", "general")


\* C28: in server.js a message that carries an image attachment is answered
\* with the image notice whatever its text is, also when the text matches a
\* creator pattern: the first reply its handler hands to sendMessage is the
\* notice.
C28_ImageNoticeWhateverText ==
    \A i \in 1 .. Len(inv) :
        (/\ variant = "server.js"
         /\ \E k \in 1 .. Len(inv[i].attachments) : inv[i].attachments[k] = "image"
         /\ repliesOf(inv[i]) # <<>>)
        => repliesOf(inv[i])[1].kind = "image"

\* C29: in server.js, whatever the message text is, the static apology is
\* returned by callGroqAPI only after a first request that failed and
\* exactly one retry, made against the fast model.
C29_RetryBeforeApology ==
    \A i \in 1 .. Len(inv) :
        LET h == inv[i]
            made == groqRequests(h.calls)
        IN  (/\ variant = "server.js"
             /\ h.pending.kind = "ai"
             /\ h.pending.arg = fallbackResponse(h.detectedLanguage))
            => /\ Len(made) = 2
               /\ made[2].arg = modelOf(FALSE)


\* the handler of invocation i takes a step
Steps(i) == i \in Invocations /\ inv'[i] # inv[i]

\* C30: in part_002 a step of a handler that answers with the media notice,
\* the welcome, the creator or the profile reply, or whose event has empty
\* text, leaves conversationMemory and every sender's stored conversation
\* as they were; whenever a sender's stored conversation is written, the
\* step is one of a handler of that sender on the FreeForm path.
C30_OnlyFreeFormWrites ==
    /\ [][\A i \in Invocations :
             (/\ variant = "part_002"
              /\ Steps(i)
              /\ Routed(inv'[i])
              /\ Decision(inv'[i]) \in {"media", "welcome", "creator", "profile", "none"})
             => /\ conversationMemory' = conversationMemory
                /\ \A s \in Senders : Stored(s)' = Stored(s)]_vars
    /\ [][\A s \in Senders :
             (variant = "part_002" /\ ConversationWritten(s))
             => \E i \in Invocations :
                    /\ Steps(i)
                    /\ inv[i].senderId = s
                    /\ Decision(inv'[i]) = "ai"]_vars

\* a sender with a stored conversation asked about the creator, was answered,
\* and the conversation is the one stored before
C30_Witness ==
    \E i \in Invocations :
        /\ variant = "part_002"
        /\ inv[i].pc = "done"
        /\ Decision(inv[i]) = "creator"
        /\ OnlyFor(i)
        /\ Stored(inv[i].senderId) = Exchanges(ConversationKeep \div 2)
        /\ sendsOf(inv[i].calls) = <<getCreatorResponse(inv[i].detectedLanguage)>>


\* an error message that indicates 404 / not found
notFound(message) == "404" \in message \/ "not found" \in message

\* C31: makeHuggingFaceRequest makes at most 3 attempts per call, makes none
\* after a successful response, makes none after a failure whose message
\* indicates 404 / not found, and when no attempt succeeded throws the error
\* of the last attempt (the call ends after at most 3 failures).
C31_BoundedAttempts ==
    (variant = "server.js" /\ delivery.pc # "idle") =>
        /\ delivery.requests <= maxRetries
        /\ Len(delivery.failures) <= maxRetries
        /\ delivery.pc = "returned" =>
               Len(delivery.failures) = delivery.requests - 1
        /\ \A k \in 1 .. Len(delivery.failures) :
               notFound(delivery.failures[k]) =>
                   k = Len(delivery.failures) /\ delivery.pc = "threw"
        /\ delivery.pc = "threw" =>
               /\ delivery.failures # <<>>
               /\ delivery.thrown = delivery.failures[Len(delivery.failures)]


\* isRateLimited admits a request of userId in this step
Admits(userId) ==
    /\ Len(activity') = Len(activity) + 1
    /\ activity'[Len(activity')].fn = "isRateLimited"
    /\ activity'[Len(activity')].userId = userId
    /\ ~activity'[Len(activity')].limited

\* C32: in part_001, during the 30 seconds that follow a Gemini call of a
\* sender that failed with a 429/quota error, isRateLimited admits no
\* request of that sender.
C32_NoAdmissionAfterQuotaError ==
    [][\A t \in timers :
          (variant = "part_001" /\ now < t.due) => ~Admits(t.senderId)]_vars


\* the FreeForm messages of senderId that were processed up to the reply
FreeFormProcessed(senderId) ==
    {i \in Invocations : inv[i].senderId = senderId /\ Exchanged(inv[i])}

turnsOf(conversation, role) ==
    {k \in 1 .. Len(conversation) : conversation[k].role = role}

\* C33: in part_002, once every handler has completed (no cleanup run,
\* fewer than 20 turns), each sender's stored conversation holds one user
\* turn and one reply for every FreeForm message processed for the sender,
\* the user turn with the text of the message, whatever the interleaving.
C33_NoExchangeLost ==
    (variant = "part_002" /\ \A i \in Invocations : ~Running(inv[i])) =>
        \A s \in Senders :
            /\ Cardinality(turnsOf(Stored(s), "user"))
                   = Cardinality(FreeFormProcessed(s))
            /\ Cardinality(turnsOf(Stored(s), "assistant"))
                   = Cardinality(FreeFormProcessed(s))
            /\ \A i \in FreeFormProcessed(s) :
                   \E k \in turnsOf(Stored(s), "user") :
                       Stored(s)[k].content = inv[i].messageText


\* the messageCount stored for senderId (0 while no Profile is stored)
countedFor(senderId) ==
    IF senderId \in DOMAIN userProfiles
    THEN userProfiles[senderId].messageCount ELSE 0

\* C34: in part_002 every sender whose handler got past lines 471-492 has a
\* Profile, and each invocation adds exactly one to the messageCount stored
\* for its sender, so that once all handlers have completed the count
\* equals the number of invocations made for the sender since the Profile
\* was created, whatever the interleaving.
C34_MessageCountCountsInvocations ==
    /\ [](\A i \in Invocations :
            (variant = "part_002" /\ Routed(inv[i]))
                => inv[i].senderId \in DOMAIN userProfiles)
    /\ [][\A i \in Invocations :
             (variant = "part_002" /\ Routes(i))
                 => countedFor(inv[i].senderId)' = countedFor(inv[i].senderId) + 1]_vars


\* C35: every processMessage invocation that sent typing_on and has
\* completed has sent typing_off after it, on every path, in part_002 and in
\* server.js; in part_002 no reply is handed to sendMessage before the
\* first typing_off.
C35_TypingOffBeforeCompletion ==
    \A i \in Invocations :
        LET calls == inv[i].calls
            on == {k \in 1 .. Len(calls) : calls[k].api = "typing_on"}
            off == {k \in 1 .. Len(calls) : calls[k].api = "typing_off"}
            replies == {k \in 1 .. Len(calls) : calls[k].api = "send"}
        IN  (variant \in {"part_002", "server.js"}) =>
                /\ (inv[i].pc \in {"done", "rejected"} /\ on # {}) =>
                       \E k \in off : \A j \in on : j < k
                /\ variant = "part_002" =>
                       \A k \in replies : \E j \in off : j < k


\* the exchange of handler h when both requests failed
userTurn(h) == [role |-> "user", content |-> h.messageText]

apologyTurn(h) == [role |-> "assistant", content |-> apology(h.groqLang)]

\* handler h got the apology from callGroqAPI
Apologised(h) == Exchanged(h) /\ h.pending = aiReply(apology(h.groqLang))

\* conversation holds first and, right behind it, second
Adjacent(conversation, first, second) ==
    \E k \in 1 .. Len(conversation) - 1 :
        conversation[k] = first /\ conversation[k + 1] = second

\* C36: in part_002, when both AI attempts of a handler fail, the apology is
\* appended as an assistant turn behind the handler's user turn and the
\* conversation is stored under the sender; the exchange is still stored
\* when the sender's handlers have all completed, and the request made for
\* a later FreeForm message of the sender carries the user turn and the
\* apology turn as context.
C36_ApologyStoredAndSent ==
    /\ [][\A i \in Invocations :
             (/\ variant = "part_002"
              /\ inv[i].pc = "groq_fallback"
              /\ inv'[i].pc # "groq_fallback"
              /\ Apologised(inv'[i]))
             => /\ inv[i].senderId \in DOMAIN conversationMemory'
                /\ Stored(inv[i].senderId)'
                       = Append(heap[inv[i].conversation], apologyTurn(inv[i]))]_vars
    /\ [][\A i \in Invocations : \A j \in Invocations :
             (/\ variant = "part_002"
              /\ inv[i].senderId = inv[j].senderId
              /\ Apologised(inv[i])
              /\ ~Running(inv[i])
              /\ inv[j].pc = "think"
              /\ inv'[j].pc = "groq_primary")
             => Adjacent(inv'[j].calls[Len(inv'[j].calls)].messages,
                         userTurn(inv[i]), apologyTurn(inv[i]))]_vars
    /\ [](\A i \in Invocations :
             (/\ variant = "part_002"
              /\ Apologised(inv[i])
              /\ \A j \in Invocations :
                     inv[j].senderId = inv[i].senderId => ~Running(inv[j]))
             => Adjacent(Stored(inv[i].senderId), userTurn(inv[i]),
                         apologyTurn(inv[i])))


\* the calls of handleMessage and handlePostback made for a sender by the
\* requests answered so far
RECURSIVE dispatchedFor(_, _)
dispatchedFor(responses, senderId) ==
    IF responses = <<>> THEN 0
    ELSE (IF Head(responses).method = "POST"
          THEN Len(SelectSeq(Head(responses).dispatched,
                             LAMBDA c : c.senderId = senderId))
          ELSE 0)
         + dispatchedFor(Tail(responses), senderId)

\* the calls of isRateLimited made for a sender so far
checkedFor(senderId) ==
    Len(SelectSeq(activity, LAMBDA a : a.fn = "isRateLimited" /\ a.userId = senderId))

\* C37: in part_001, every event of a sender that POST /webhook hands to
\* handleMessage or handlePostback, each of which replies to the sender, has
\* been counted and checked by a call of isRateLimited for that sender.
C37_EveryEventRateChecked ==
    variant = "part_001" =>
        \A senderId \in Senders :
            checkedFor(senderId) = dispatchedFor(res, senderId)


\* C38: in part_002, no callback scheduled with setImmediate by a POST
\* /webhook request that was answered 500 is run: no messaging event of such
\* a request reaches processMessage.
C38_NothingRunsAfter500 ==
    [][(/\ variant = "part_002"
        /\ immediates # <<>>
        /\ immediates' = Tail(immediates))
       => res[Head(immediates).request].response.status # 500]_vars

====
